---- MODULE Spec2Model ----
(***************************************************************************)
(* A model of src/scraper.js: the extraction that page.evaluate runs over  *)
(* the rendered profile page (scrapeInfoWorldProfile), the RSS serializer  *)
(* (generateRSS) and the driver (main).                                    *)
(*                                                                         *)
(* Text is modelled character by character: a JavaScript string is a       *)
(* sequence of one-character strings, and every regular expression of the  *)
(* source is written out as a sequence of nodes that a backtracking        *)
(* matcher interprets with JavaScript's priorities (leftmost match, greedy *)
(* and lazy quantifiers, lookahead, alternatives in order).                *)
(***************************************************************************)
EXTENDS Integers, Sequences, FiniteSets, TLC

(***************************************************************************)
(* Strings                                                                 *)
(***************************************************************************)

\* A string literal as the sequence of its characters.
Str(s) == [i \in 1..Len(s) |-> SubSeq(s, i, i)]

UpperSeq == Str("ABCDEFGHIJKLMNOPQRSTUVWXYZ")
LowerSeq == Str("abcdefghijklmnopqrstuvwxyz")
DigitSeq == Str("0123456789")

SetOf(q) == {q[i] : i \in 1..Len(q)}

UpperCh == SetOf(UpperSeq)
LowerCh == SetOf(LowerSeq)
DigitCh == SetOf(DigitSeq)

\* \w, \s and the line terminators that . does not match.
WordCh == UpperCh \cup LowerCh \cup DigitCh \cup {"_"}
SpaceCh == {" ", "\t", "\n", "\r", "\f"}
LineTerm == {"\n", "\r"}

\* String.prototype.toLowerCase / toUpperCase, one character.
LowerOf(c) ==
    IF c \in UpperCh
    THEN LowerSeq[CHOOSE i \in 1..Len(UpperSeq) : UpperSeq[i] = c]
    ELSE c

UpperOf(c) ==
    IF c \in LowerCh
    THEN UpperSeq[CHOOSE i \in 1..Len(LowerSeq) : LowerSeq[i] = c]
    ELSE c

toLowerCase(s) == [i \in 1..Len(s) |-> LowerOf(s[i])]
toUpperCase(s) == [i \in 1..Len(s) |-> UpperOf(s[i])]

\* The value of a local constant: Only({e : x \in {v}}) is e with x standing
\* for the value of v, computed once, as a const declaration of the source.
Only(S) == CHOOSE x \in S : TRUE

Min(a, b) == IF a < b THEN a ELSE b
Max(a, b) == IF a > b THEN a ELSE b

\* The concatenation of the sequences q[lo..hi].
RECURSIVE FlattenBetween(_, _, _)
FlattenBetween(q, lo, hi) ==
    IF lo > hi THEN <<>>
    ELSE IF lo = hi THEN q[lo]
    ELSE Only({ FlattenBetween(q, lo, mid) \o FlattenBetween(q, mid + 1, hi) :
                mid \in {(lo + hi) \div 2} })

Flatten(q, lo, hi) == Only({ FlattenBetween(v, lo, hi) : v \in {q} })

\* String.prototype.substring(a, b) and slice(a) with 0-based, end-exclusive
\* indices, both already within 0..length as at every call site.
substring(s, a, b) == SubSeq(s, Min(a, Len(s)) + 1, Min(b, Len(s)))

RECURSIVE LeadingSpaces(_, _)
LeadingSpaces(s, i) ==
    IF i <= Len(s) /\ s[i] \in SpaceCh THEN LeadingSpaces(s, i + 1) ELSE i - 1

RECURSIVE TrailingSpaces(_, _)
TrailingSpaces(s, j) ==
    IF j >= 1 /\ s[j] \in SpaceCh THEN TrailingSpaces(s, j - 1) ELSE Len(s) - j

\* String.prototype.trim.
trim(s) ==
    LET a == LeadingSpaces(s, 1)
    IN  IF a = Len(s) THEN <<>>
        ELSE SubSeq(s, a + 1, Len(s) - TrailingSpaces(s, Len(s)))

\* Whether sub occurs in s at position i (1-based).
At(s, sub, i) ==
    /\ i + Len(sub) - 1 <= Len(s)
    /\ \A k \in 1..Len(sub) : s[i + k - 1] = sub[k]

\* String.prototype.includes / startsWith.
includes(s, sub) == \E i \in 1..(Len(s) - Len(sub) + 1) : At(s, sub, i)
startsWith(s, sub) == At(s, sub, 1)

(***************************************************************************)
(* Regular expressions                                                     *)
(*                                                                         *)
(* A regular expression is a sequence of nodes:                            *)
(*   ch    one character of a class          \s  x  [\w\s]  .              *)
(*   rep   a quantified class                \s+  \d{4}  .*  .*?  s?       *)
(*   alt   alternatives, tried in order      (Jan|Feb|...)                 *)
(*   neg   negative lookahead                (?!Sharon\s+Machlis)          *)
(*   look  positive lookahead                (?=\w)                        *)
(*   bol, eol                                ^  $  (no m flag in the code) *)
(*   mark  the position of a capture group's boundary                      *)
(* A class is a set of characters, possibly negated.                       *)
(***************************************************************************)

Cls(set) == [neg |-> FALSE, cs |-> set]
NotCls(set) == [neg |-> TRUE, cs |-> set]
InCls(c, cl) == (c \in cl.cs) # cl.neg

W == Cls(WordCh)
Sp == Cls(SpaceCh)
D == Cls(DigitCh)
WS == Cls(WordCh \cup SpaceCh)
Dot == NotCls(LineTerm)

Ch(cl) == <<[t |-> "ch", cl |-> cl]>>
\* hi = -1 stands for no upper limit.
Rep(cl, lo, hi, greedy) ==
    <<[t |-> "rep", cl |-> cl, lo |-> lo, hi |-> hi, greedy |-> greedy]>>
Plus(cl) == Rep(cl, 1, -1, TRUE)
Star(cl) == Rep(cl, 0, -1, TRUE)
Opt(cl) == Rep(cl, 0, 1, TRUE)
LazyStar(cl) == Rep(cl, 0, -1, FALSE)
Alt(alts) == <<[t |-> "alt", alts |-> alts]>>
NegLook(re) == <<[t |-> "neg", re |-> re]>>
Look(re) == <<[t |-> "look", re |-> re]>>
Bol == <<[t |-> "bol"]>>
Eol == <<[t |-> "eol"]>>
Mark(k) == <<[t |-> "mark", k |-> k]>>

\* A literal, case-sensitive and under the i flag.
Lit(s) == <<[t |-> "lit", s |-> Str(s), ci |-> FALSE]>>
LitI(s) == <<[t |-> "lit", s |-> toLowerCase(Str(s)), ci |-> TRUE]>>

LitAt(n, s, i) ==
    /\ i + Len(n.s) - 1 <= Len(s)
    /\ \A k \in 1..Len(n.s) :
          (IF n.ci THEN LowerOf(s[i + k - 1]) ELSE s[i + k - 1]) = n.s[k]

NoMatch == [ok |-> FALSE, b |-> 0, e |-> 0, g |-> <<0, 0, 0, 0, 0, 0>>]
MatchAt(i) == [ok |-> TRUE, b |-> 0, e |-> i, g |-> <<0, 0, 0, 0, 0, 0>>]

MinOf(S) == CHOOSE a \in S : \A b \in S : a <= b
MaxOf(S) == CHOOSE a \in S : \A b \in S : a >= b

\* The number of elements below x of the ascending sequence q, which is known
\* to lie in lo..hi.
RECURSIVE Below(_, _, _, _)
Below(q, x, lo, hi) ==
    IF lo >= hi THEN lo
    ELSE Only({ IF q[mid] < x THEN Below(q, x, mid, hi)
                ELSE Below(q, x, lo, mid - 1) :
                mid \in {(lo + hi + 1) \div 2} })

\* The positions of s whose character is not of class cl, ascending, and the
\* position after the end of s.
stops(cl, s) ==
    SelectSeq([p \in 1..Len(s) |-> p], LAMBDA p : ~InCls(s[p], cl))
        \o <<Len(s) + 1>>

\* The number of consecutive characters of class cl from position i, at most
\* cap of them (cap = -1: no limit), given the stops of cl in s.
RunLen(st, i, cap) ==
    Only({ IF cap = -1 THEN run ELSE Min(run, cap) :
           run \in {st[Below(st, i, 0, Len(st)) + 1] - i} })

\* The matching of an expression is worked out for all positions of s at
\* once.  A table holds, for each position i of 1..Len(s)+1, the match that
\* a backtracking engine finds first when it tries the remaining expression
\* at i; e is the position after the match.  Matches(re, s, next) is the
\* table of re followed by the expression whose table is next.  A greedy
\* quantifier takes the longest repetition after which the rest of the
\* expression matches, a lazy one the shortest, an alternation its first
\* alternative after which the rest matches.
RECURSIVE Matches(_, _, _)

\* The table of the empty expression.
Accept(s) == [i \in 1..(Len(s) + 1) |-> MatchAt(i)] \o <<>>

\* The positions at which a table holds a match, ascending.
okPlaces(table) ==
    SelectSeq([p \in 1..Len(table) |-> p], LAMBDA p : table[p].ok) \o <<>>

\* A quantified class n at i, which can take n.lo..k characters there: oks
\* are the positions at which the rest matches.
Quantified(n, next, oks, i, k) ==
    IF k < n.lo THEN NoMatch
    ELSE IF n.greedy
    THEN Only({ IF c = 0 THEN NoMatch
                ELSE IF oks[c] < i + n.lo THEN NoMatch
                ELSE next[oks[c]] :
                c \in {Below(oks, i + k + 1, 0, Len(oks))} })
    ELSE Only({ IF c = Len(oks) THEN NoMatch
                ELSE IF oks[c + 1] > i + k THEN NoMatch
                ELSE next[oks[c + 1]] :
                c \in {Below(oks, i + n.lo, 0, Len(oks))} })

\* The first of the alternatives' tables that holds a match at i.
Alternatives(tables, i) ==
    Only({ IF good = {} THEN NoMatch
           ELSE tables[CHOOSE j \in good : \A k \in good : j <= k][i] :
           good \in {{j \in 1..Len(tables) : tables[j][i].ok}} })

\* The table of the node n of an expression, followed by next.
MatchNode(n, s, next) ==
    CASE n.t = "ch" ->
           [i \in 1..(Len(s) + 1) |->
               IF i <= Len(s) /\ InCls(s[i], n.cl) THEN next[i + 1]
               ELSE NoMatch] \o <<>>
      [] n.t = "lit" ->
           [i \in 1..(Len(s) + 1) |->
               IF LitAt(n, s, i) THEN next[i + Len(n.s)] ELSE NoMatch] \o <<>>
      [] n.t = "rep" ->
           Only({ [i \in 1..(Len(s) + 1) |->
                      Quantified(n, next, oks, i, RunLen(st, i, n.hi))] \o <<>> :
                  oks \in {okPlaces(next)}, st \in {stops(n.cl, s)} })
      [] n.t = "alt" ->
           Only({ [i \in 1..(Len(s) + 1) |-> Alternatives(tables, i)] \o <<>> :
                  tables \in {[j \in 1..Len(n.alts) |->
                                  Matches(n.alts[j], s, next)] \o <<>>} })
      [] n.t = "neg" ->
           Only({ [i \in 1..(Len(s) + 1) |->
                      IF inner[i].ok THEN NoMatch ELSE next[i]] \o <<>> :
                  inner \in {Matches(n.re, s, Accept(s))} })
      [] n.t = "look" ->
           Only({ [i \in 1..(Len(s) + 1) |->
                      IF inner[i].ok THEN next[i] ELSE NoMatch] \o <<>> :
                  inner \in {Matches(n.re, s, Accept(s))} })
      [] n.t = "bol" ->
           [i \in 1..(Len(s) + 1) |-> IF i = 1 THEN next[i] ELSE NoMatch] \o <<>>
      [] n.t = "eol" ->
           [i \in 1..(Len(s) + 1) |->
               IF i = Len(s) + 1 THEN next[i] ELSE NoMatch] \o <<>>
      [] n.t = "mark" ->
           [i \in 1..(Len(s) + 1) |->
               IF next[i].ok THEN [next[i] EXCEPT !.g[n.k] = i]
               ELSE NoMatch] \o <<>>

\* The table of the nodes lo..hi of re, followed by next.
RECURSIVE Between(_, _, _, _, _)
Between(re, lo, hi, s, next) ==
    IF lo > hi THEN next
    ELSE IF lo = hi
    THEN Only({ MatchNode(n, t, table) :
                n \in {re[lo]}, t \in {s}, table \in {next} })
    ELSE Only({ Only({ Between(re, lo, mid, s, right) :
                       right \in {Between(re, mid + 1, hi, s, next)} }) :
                mid \in {(lo + hi) \div 2} })

Matches(re, s, next) == Between(re, 1, Len(re), s, next)

\* M(re, s, i): the match of re at position i.
M(re, s, i) == Matches(re, s, Accept(s))[i]

\* The leftmost match in a table at or after position i.
FirstStart(table, oks, i) ==
    Only({ IF c = Len(oks) THEN NoMatch
           ELSE [table[oks[c + 1]] EXCEPT !.b = oks[c + 1]] :
           c \in {Below(oks, i, 0, Len(oks))} })

\* The leftmost match of re in s at or after position i.
SearchFrom(re, s, i) ==
    Only({ FirstStart(table, okPlaces(table), i) :
           table \in {Matches(re, s, Accept(s))} })

\* RegExp.prototype.test, String.prototype.match (no g flag).
Search(re, s) == SearchFrom(re, s, 1)
test(re, s) == Search(re, s).ok

\* String.prototype.replace(re, repl) without and with the g flag.
replace(s, re, repl) ==
    Only({ IF r.ok
           THEN SubSeq(s, 1, r.b - 1) \o repl \o SubSeq(s, r.e, Len(s))
           ELSE s :
           r \in {Search(re, s)} })

\* The g flag: the scan stands at position i and goes over the positions
\* lo..hi (i >= lo).  out is the text it produces for them, at the position
\* it has reached.  A match is replaced and the scan goes on after it; after
\* an empty match it goes on one character further.
ReplaceAt(s, table, repl, i) ==
    IF table[i].ok /\ table[i].e > i THEN [out |-> repl, at |-> table[i].e]
    ELSE [out |-> (IF table[i].ok THEN repl ELSE <<>>)
                    \o (IF i <= Len(s) THEN <<s[i]>> ELSE <<>>),
          at |-> i + 1]

RECURSIVE ReplaceFrom(_, _, _, _, _, _)
ReplaceFrom(s, table, repl, i, lo, hi) ==
    IF i > hi THEN [out |-> <<>>, at |-> i]
    ELSE IF lo = hi THEN ReplaceAt(s, table, repl, i)
    ELSE Only({ Only({ [out |-> left.out \o right.out, at |-> right.at] :
                       right \in {ReplaceFrom(s, table, repl, left.at,
                                              mid + 1, hi)} }) :
                mid \in {(lo + hi) \div 2},
                left \in {ReplaceFrom(s, table, repl, i, lo, (lo + hi) \div 2)} })

replaceAll(s, re, repl) ==
    Only({ ReplaceFrom(s, table, repl, 1, 1, Len(s) + 1).out :
           table \in {Matches(re, s, Accept(s))} })

(***************************************************************************)
(* The regular expressions of scrapeInfoWorldProfile                       *)
(***************************************************************************)

SharonMachlis == LitI("Sharon") \o Plus(Sp) \o LitI("Machlis")

\* /by\s+(?!Sharon\s+Machlis)[\w\s]+/i, /author:\s*(?!...)[\w\s]+/i,
\* /from\s+(?!Sharon\s+Machlis)[\w\s]+/i
otherAuthorPatterns ==
    << LitI("by") \o Plus(Sp) \o NegLook(SharonMachlis) \o Plus(WS),
       LitI("author:") \o Star(Sp) \o NegLook(SharonMachlis) \o Plus(WS),
       LitI("from") \o Plus(Sp) \o NegLook(SharonMachlis) \o Plus(WS) >>

skipPhrases ==
    << Str("more from infoworld"), Str("trending"), Str("popular"),
       Str("recommended"), Str("you might also like"),
       Str("related articles"), Str("also on infoworld"),
       Str("from our partners"), Str("sponsored") >>

\* \w+\s+\d+,\s+\d{4}: a date such as "Oct 3, 2024".
DateTail ==
    Plus(W) \o Plus(Sp) \o Plus(D) \o Lit(",") \o Plus(Sp) \o Rep(D, 4, 4, TRUE)

\* /^By\s+[\w\s]+\s+\w+\s+\d+,\s+\d{4}.*$/i
bylineBlob ==
    Bol \o LitI("By") \o Plus(Sp) \o Plus(WS) \o Plus(Sp) \o DateTail
        \o Star(Dot) \o Eol

\* /^By\s+Sharon\s+Machlis\s+\w+\s+\d+,\s+\d{4}\s+\d+\s+mins?\s+(.+)/i
\* Mark 1 is the start of group 1, which runs to the end of the match.
metadataPattern ==
    Bol \o LitI("By") \o Plus(Sp) \o SharonMachlis \o Plus(Sp) \o DateTail
        \o Plus(Sp) \o Plus(D) \o Plus(Sp) \o LitI("min") \o Opt(Cls({"s", "S"}))
        \o Plus(Sp) \o Mark(1) \o Plus(Dot)

categoryTags ==
    << "Generative AI", "Natural Language Processing", "R Language",
       "Technology Industry", "Developer", "Analytics", "Data Science",
       "Programming", "Software Development" >>

moreCategoryTags ==
    << "AI", "Machine Learning", "Cloud Computing", "DevOps", "Cybersecurity",
       "Web Development", "Mobile Development", "Blockchain", "IoT",
       "Big Data" >>

AltWords(words) == Alt([i \in 1..Len(words) |-> LitI(words[i])])

\* /\s*(Generative AI|...|Software Development)$/gi
trailingCategory == Star(Sp) \o AltWords(categoryTags) \o Eol

\* /^By\s+Sharon\s+Machlis/i
startsWithByline == Bol \o LitI("By") \o Plus(Sp) \o SharonMachlis

\* /^\d+$/
allDigits == Bol \o Plus(D) \o Eol

cleanupPatterns ==
    << [g |-> FALSE, re |-> Bol \o LitI("By") \o Plus(Sp) \o SharonMachlis \o Star(Sp)],
       [g |-> FALSE,
        re |-> Star(Sp) \o Plus(D) \o Plus(Sp) \o LitI("min")
                 \o Opt(Cls({"s", "S"})) \o Star(Sp) \o Eol],
       [g |-> FALSE, re |-> Star(Sp) \o DateTail \o Star(Sp) \o Eol],
       [g |-> TRUE,
        re |-> Star(Sp) \o AltWords(categoryTags \o moreCategoryTags) \o Eol],
       [g |-> FALSE, re |-> LitI("Read more") \o Star(Dot) \o Eol],
       [g |-> TRUE, re |-> Plus(Sp)] >>

metadataIndicators ==
    << Plus(Sp) \o DateTail,
       Plus(Sp) \o Plus(D) \o Plus(Sp) \o LitI("min") \o Opt(Cls({"s", "S"})),
       Plus(Sp) \o LitI("By") \o Plus(Sp) >>

monthNames ==
    << "Jan", "Feb", "Mar", "Apr", "May", "Jun",
       "Jul", "Aug", "Sep", "Oct", "Nov", "Dec" >>

\* /^(By|mins?|Jan|...|Dec)\s/i
looksLikeMetadata ==
    Bol \o Alt(<<LitI("By"), LitI("min") \o Opt(Cls({"s", "S"}))>>
                 \o [i \in 1..Len(monthNames) |-> LitI(monthNames[i])])
        \o Ch(Sp)

\* /^By\s+[\w\s]+\s+\w+\s+\d+,\s+\d{4}.*?(?=\w)/i
descriptionByline ==
    Bol \o LitI("By") \o Plus(Sp) \o Plus(WS) \o Plus(Sp) \o DateTail
        \o LazyStar(Dot) \o Look(Ch(W))

\* /(Jan|...|Dec)\s+\d{1,2},\s+\d{4}/i
datePattern ==
    AltWords(monthNames) \o Plus(Sp) \o Rep(D, 1, 2, TRUE) \o Lit(",")
        \o Plus(Sp) \o Rep(D, 4, 4, TRUE)

(***************************************************************************)
(* The rendered document                                                   *)
(*                                                                         *)
(* The page is a sequence of entries in document order.  An entry is one   *)
(* <a> link with its children (kids), its title and aria-label attributes, *)
(* and, when wrap holds, the nearest enclosing container that              *)
(* closest('article, .article-item, [class*="article"], div, section, li') *)
(* finds, with the container's other children before (pre) and after      *)
(* (post) the link.  item says that this container is a `main              *)
(* .article-item`, which the second selector matches as a candidate of its *)
(* own; excluded that the entry lies inside one of the excludeSections;    *)
(* sels which of the link selectors match the link; svg that the link is   *)
(* an <a> of an inline <svg>, whose href property is an SVGAnimatedString, *)
(* an object without the methods of a string.  A child node has a          *)
(* role (the selector it answers to), its text and, for a date element,    *)
(* its datetime attribute.                                                 *)
(***************************************************************************)

Node(role, text) == [role |-> role, text |-> text, datetime |-> <<>>]
TimeNode(datetime, text) == [role |-> "time", text |-> text, datetime |-> datetime]

RECURSIVE textContent(_)
textContent(nodes) ==
    IF Len(nodes) = 0 THEN <<>>
    ELSE Head(nodes).text \o textContent(Tail(nodes))

\* querySelector: the first node, in document order, answering to a role.
NoNode == [role |-> "none", text |-> <<>>, datetime |-> <<>>]
RECURSIVE querySelector(_, _)
querySelector(nodes, roles) ==
    IF Len(nodes) = 0 THEN NoNode
    ELSE IF Head(nodes).role \in roles THEN Head(nodes)
    ELSE querySelector(Tail(nodes), roles)

\* A candidate is an entry's link (tag "A") or its .article-item (tag "DIV").
Cand(tag, e) == [tag |-> tag, e |-> e]

containerNodes(e) == e.pre \o e.kids \o e.post

\* element.closest(...): a DIV candidate is its own container.
hasParentContainer(c) == c.tag = "DIV" \/ c.e.wrap
elementNodes(c) == IF c.tag = "A" THEN c.e.kids ELSE containerNodes(c.e)

\* parentContainer?.querySelector(sel) || element.querySelector(sel)
queryBoth(c, roles) ==
    Only({ IF inParent.role # "none" THEN inParent
           ELSE querySelector(elementNodes(c), roles) :
           inParent \in {IF hasParentContainer(c)
                         THEN querySelector(containerNodes(c.e), roles)
                         ELSE NoNode} })

(***************************************************************************)
(* page.evaluate, per candidate: author and section filter                 *)
(***************************************************************************)

\* Whether some otherAuthorPatterns[k] matches the container text.
otherAuthor(text) ==
    \E k \in 1..Len(otherAuthorPatterns) : test(otherAuthorPatterns[k], text)

\* Whether the lower-cased container text includes some skipPhrases[k].
skipSection(text) ==
    \E k \in 1..Len(skipPhrases) : includes(toLowerCase(text), skipPhrases[k])

\* The early returns of lines 161-199.
rejected(c) ==
    /\ hasParentContainer(c)
    /\ \E possibleAuthorText \in {textContent(containerNodes(c.e))} :
          otherAuthor(possibleAuthorText) \/ skipSection(possibleAuthorText)

(***************************************************************************)
(* page.evaluate, per candidate: title                                     *)
(***************************************************************************)

\* A variant of the sentinel: no sentinel at all.
NoSentinel == <<>>

UntitledArticle == Str("Untitled Article")

\* a || b on strings: the empty string is the one falsy string.
OrElse(a, b) == IF a # <<>> THEN a ELSE b

\* node.textContent?.trim() || '' of an element that may be missing.
trimmedText(node) == IF node.role # "none" THEN trim(node.text) ELSE <<>>

\* element.getAttribute(name) || '' for the two attributes the code reads.
getAttribute(c, name) ==
    IF c.tag # "A" THEN <<>>
    ELSE IF name = "title" THEN c.e.titleAttr
    ELSE c.e.ariaLabel

\* Lines 202-230: heading, title-class element, title or aria-label
\* attribute (of a link: a DIV candidate carries none), link text, sentinel.
rawTitle(c) ==
    OrElse(OrElse(OrElse(OrElse(OrElse(
        trimmedText(queryBoth(c, {"h"})),
        trimmedText(queryBoth(c, {"title"}))),
        getAttribute(c, "title")),
        getAttribute(c, "aria-label")),
        trim(textContent(elementNodes(c)))),
        UntitledArticle)

\* The part of s after its last "/": urlParts[urlParts.length - 1].
RECURSIVE lastSegment(_, _)
lastSegment(s, j) ==
    IF j = 0 \/ s[j] = "/" THEN SubSeq(s, j + 1, Len(s))
    ELSE lastSegment(s, j - 1)

\* word.charAt(0).toUpperCase() + word.slice(1).toLowerCase() for every word
\* of slug.split(' '), joined by ' ' again.
titleCase(s) ==
    [i \in 1..Len(s) |->
        IF i = 1 \/ s[i - 1] = " " THEN UpperOf(s[i]) ELSE LowerOf(s[i])]

\* Lines 252-260: the title derived from the last segment of the link's href.
slugTitle(href, title) ==
    Only({ IF slug # <<>> /\ ~test(allDigits, slug) THEN titleCase(slug)
           ELSE title :
           slug \in {replaceAll(replace(lastSegment(href, Len(href)),
                                        Lit(".html"), <<>>),
                                Lit("-"), <<" ">>)} })

\* cleanupPatterns.forEach(pattern => title = title.replace(pattern, ' ').trim())
RECURSIVE applyCleanup(_, _)
applyCleanup(title, k) ==
    IF k > Len(cleanupPatterns) THEN title
    ELSE Only({ applyCleanup(cleaned, k + 1) :
                cleaned \in {trim(IF cleanupPatterns[k].g
                                  THEN replaceAll(title, cleanupPatterns[k].re,
                                                  <<" ">>)
                                  ELSE replace(title, cleanupPatterns[k].re,
                                               <<" ">>))} })

\* Lines 286-291: cut at a metadata indicator found after the 10th character.
\* match.index is 0-based: r.b - 1.
RECURSIVE truncateAtMetadata(_, _)
truncateAtMetadata(title, k) ==
    IF k > Len(metadataIndicators) THEN title
    ELSE Only({ truncateAtMetadata(next, k + 1) :
                next \in { Only({ IF r.ok /\ r.b - 1 > 10
                                  THEN trim(substring(title, 0, r.b - 1))
                                  ELSE title :
                                  r \in {Search(metadataIndicators[k], title)} }) } })

\* Lines 236-245: the text after the metadata, without a trailing category.
afterMetadata(title) ==
    Only({ IF metadataMatch.ok
           THEN trim(replaceAll(
                    trim(SubSeq(title, metadataMatch.g[1], metadataMatch.e - 1)),
                    trailingCategory, <<>>))
           ELSE title :
           metadataMatch \in {Search(metadataPattern, title)} })

\* Lines 247-263.
replaceByline(title, href) ==
    IF test(startsWithByline, title) THEN slugTitle(href, title) ELSE title

\* Lines 293-299.
orUntitled(title) ==
    IF Len(title) < 5 \/ test(allDigits, title) \/ test(looksLikeMetadata, title)
    THEN UntitledArticle
    ELSE title

\* Lines 232-299, a statement after the other.
cleanTitle(title0, href) ==
    Only({ orUntitled(e) :
           e \in { Only({ truncateAtMetadata(d, 1) :
           d \in { Only({ applyCleanup(c, 1) :
           c \in { Only({ replaceByline(b, href) :
           b \in { Only({ afterMetadata(a) :
           a \in { trim(replace(title0, bylineBlob, <<>>)) } }) } }) } }) } }) } })

\* Lines 202-299: the title of candidate c.
extractTitle(c) == cleanTitle(rawTitle(c), c.e.href)

(***************************************************************************)
(* page.evaluate, per candidate: description and date                      *)
(***************************************************************************)

descSelectors ==
    << "summary", "excerpt", "description", "dek", "standfirst", "intro",
       "abstract" >>

\* Lines 319-328: the text of the first selector's element that is longer
\* than 20 characters, else that of the last element found.
RECURSIVE findDescription(_, _, _)
findDescription(c, k, description) ==
    IF k > Len(descSelectors) THEN description
    ELSE Only({ IF descElement.role = "none"
                THEN findDescription(c, k + 1, description)
                ELSE Only({ IF Len(found) > 20 THEN found
                            ELSE findDescription(c, k + 1, found) :
                            found \in {trim(descElement.text)} }) :
                descElement \in {queryBoth(c, {descSelectors[k]})} })

\* Lines 331-337: the first paragraph, when no longer description was found.
orParagraph(c, description) ==
    IF Len(description) >= 20 THEN description
    ELSE Only({ IF paragraph.role # "none" THEN trim(paragraph.text)
                ELSE description :
                paragraph \in {queryBoth(c, {"p"})} })

\* Lines 343-346.
orNoDescription(description) ==
    IF \/ Len(description) < 20
       \/ includes(toLowerCase(description), Str("click to read"))
       \/ includes(toLowerCase(description), Str("read more"))
    THEN <<>> ELSE description

\* A variant of the limit that marks the cut after 500 characters.
withEllipsisAfterLimit(description) ==
    IF Len(description) > 500
    THEN substring(description, 0, 500) \o Str("...") ELSE description

\* Lines 348-351.
withEllipsis(description) ==
    IF Len(description) > 500
    THEN substring(description, 0, 497) \o Str("...") ELSE description

\* Lines 306-352, a statement after the other.
extractDescription(c) ==
    Only({ withEllipsis(e) :
           e \in { Only({ orNoDescription(d) :
           d \in { Only({ trim(replace(b, descriptionByline, <<>>)) :
           b \in { Only({ orParagraph(c, a) :
           a \in { findDescription(c, 1, <<>>) } }) } }) } }) } })

dateRoles == {"time"}

\* Lines 358-360: the datetime attribute, else the trimmed text.
dateOf(dateElement) ==
    IF dateElement.role = "none" THEN <<>>
    ELSE IF dateElement.datetime # <<>> THEN dateElement.datetime
    ELSE trim(dateElement.text)

\* Lines 355-372.
extractPubDate(c) ==
    Only({ IF a # <<>> \/ ~hasParentContainer(c) THEN a
           ELSE Only({ IF dateMatch.ok
                       THEN SubSeq(textContent(containerNodes(c.e)),
                                   dateMatch.b, dateMatch.e - 1)
                       ELSE a :
                       dateMatch \in {Search(datePattern,
                                             textContent(containerNodes(c.e)))} }) :
           a \in {dateOf(queryBoth(c, dateRoles))} })

TargetAuthor == Str("Sharon Machlis")

\* Line 146: url.includes is not a function when url is the href object of
\* an svg link; the TypeError leaves the try of line 138.
throws(c) == c.tag = "A" /\ c.e.svg

\* Lines 138-387 for one candidate: <<>> when it is skipped or when its
\* processing throws (the catch of line 384 logs and the loop goes on), else
\* the one record pushed onto articleData.
processElement(c) ==
    IF throws(c) THEN <<>>
    ELSE IF c.e.href = <<>> \/ ~includes(c.e.href, Str("/article/")) THEN <<>>
    ELSE IF rejected(c) THEN <<>>
    ELSE IF ~includes(c.e.href, Str("infoworld.com/article/")) THEN <<>>
    ELSE << [title |-> substring(extractTitle(c), 0, 200),
             url |-> c.e.href,
             description |-> substring(extractDescription(c), 0, 500),
             pubDate |-> extractPubDate(c),
             author |-> TargetAuthor] >>

(***************************************************************************)
(* page.evaluate: discovery, the loop over the candidates, de-duplication  *)
(*                                                                         *)
(* A page is a sequence of items in document order; an item places one     *)
(* entry in the main column or inside an excluded section ("aside").       *)
(***************************************************************************)

MAX_ARTICLES == 10

\* The seven selectors, in the order of the selectors array.  The second,
\* 'main .article-item', matches containers; the others match links.
NSelectors == 7
ItemSelector == 2

\* Lines 90-103: only the <a> elements of an excluded section are excluded.
isExcluded(tag, region) == tag = "A" /\ region = "aside"

\* Whether selector k matches the element tag of entry e.
selectorMatches(k, tag, e) ==
    IF k = ItemSelector THEN tag = "DIV" /\ e.item
    ELSE tag = "A" /\ k \in e.sels

\* Lines 118-134: the elements of the Set, in insertion order: by the first
\* selector that finds the element, then by document order.  entries[i] is
\* the entry of the page's item i, regions[i] its region.
firstSelector(tag, e) ==
    LET ks == {k \in 1..NSelectors : selectorMatches(k, tag, e)}
    IN  IF ks = {} THEN 0 ELSE MinOf(ks)

\* The elements of a document of n entries, in document order: the
\* container of an entry comes before its link.
allElements(n) ==
    [j \in 1..(2 * n) |-> <<(j + 1) \div 2, IF j % 2 = 1 THEN "DIV" ELSE "A">>]

\* Lines 120-127 for selector k: what it adds to the Set.
addedBy(k, n, entries, regions) ==
    SelectSeq(allElements(n),
              LAMBDA el : /\ firstSelector(el[2], entries[el[1]]) = k
                          /\ ~isExcluded(el[2], regions[el[1]]))

uniqueElements(n, entries, regions) ==
    Flatten([k \in 1..NSelectors |-> addedBy(k, n, entries, regions)],
            1, NSelectors)

\* The places of items at which a url occurs for the first time, the order
\* of the keys of the Map, and the place at which the url of place i occurs
\* for the last time, where the Map's value for it comes from.
firstPlaces(items) ==
    SelectSeq([i \in 1..Len(items) |-> i],
              LAMBDA i : \A j \in 1..(i - 1) : items[j].url # items[i].url)

lastPlace(items, i) ==
    MaxOf({j \in 1..Len(items) : items[j].url = items[i].url})

\* Two variants of the de-duplication, used to see that the properties of it
\* stated below depend on it: one keeps every record, one keeps the fields of
\* a url's first record instead of its last.
keepEveryRecord(items) == items

firstRecordWins(items) ==
    Only({ [r \in 1..Len(firsts) |-> items[firsts[r]]] :
           firsts \in {firstPlaces(items)} })

\* Array.from(new Map(items.map(item => [item.url, item])).values()): one
\* record per url, at the place of the url's first record, with the fields
\* of its last.
dedupByUrl(items) ==
    Only({ [r \in 1..Len(firsts) |-> items[lastPlace(items, firsts[r])]] :
           firsts \in {firstPlaces(items)} })

\* A variant of the limit that drops the oldest-discovered records' places:
\* the last n records instead of the first.
sliceFromEnd(items, n) == SubSeq(items, Max(1, Len(items) - n + 1), Len(items))

\* articles.slice(0, n)
slice(items, n) == SubSeq(items, 1, Min(n, Len(items)))

\* Lines 408-416 for one link of the alternative pass.
ArticleSentinel == Str("Article")

alternativeRecord(e) ==
    [title |-> OrElse(OrElse(trim(textContent(e.kids)), e.titleAttr),
                      ArticleSentinel),
     url |-> e.href,
     description |-> <<>>,
     pubDate |-> <<>>,
     author |-> TargetAuthor]

\* Lines 408-416 for one link of the document: nothing when the selector of
\* line 408 does not match it or the filter of line 416 drops it.
alternativeLinks(e) ==
    IF /\ includes(e.href, Str("/article/"))
       /\ e.href # <<>>
       /\ includes(e.href, Str("infoworld.com/article/"))
    THEN <<alternativeRecord(e)>>
    ELSE <<>>

(***************************************************************************)
(* generateRSS                                                             *)
(***************************************************************************)

\* text.replace(/c/g, repl) for a single character c.
replaceChar(s, c, repl) ==
    Only({ IF \A i \in 1..Len(t) : t[i] # c THEN t
           ELSE Flatten([i \in 1..Len(t) |-> IF t[i] = c THEN r ELSE <<t[i]>>]
                            \o <<>>,
                        1, Len(t)) :
           t \in {s}, r \in {repl} })

\* A variant of escapeXml that replaces & last, so that the & of the
\* entities written before it is escaped again.
escapeXmlAmpersandLast(text) ==
    Only({ replaceChar(d, "&", Str("&amp;")) :
           d \in { Only({ replaceChar(c, "'", Str("&apos;")) :
           c \in { Only({ replaceChar(b, "\"", Str("&quot;")) :
           b \in { Only({ replaceChar(a, ">", Str("&gt;")) :
           a \in { replaceChar(text, "<", Str("&lt;")) } }) } }) } }) } })

\* A variant of escapeXml that leaves > as it is, which character data may
\* hold.
escapeXmlKeepingGt(text) ==
    Only({ replaceChar(d, "'", Str("&apos;")) :
           d \in { Only({ replaceChar(c, "\"", Str("&quot;")) :
           c \in { Only({ replaceChar(a, "<", Str("&lt;")) :
           a \in { replaceChar(text, "&", Str("&amp;")) } }) } }) } })

\* Lines 469-477.
escapeXml(text) ==
    Only({ replaceChar(d, "'", Str("&apos;")) :
           d \in { Only({ replaceChar(c, "\"", Str("&quot;")) :
           c \in { Only({ replaceChar(b, ">", Str("&gt;")) :
           b \in { Only({ replaceChar(a, "<", Str("&lt;")) :
           a \in { replaceChar(text, "&", Str("&amp;")) } }) } }) } }) } })

\* String(n) for 0 <= n <= 99.
numberToString(n) ==
    IF n < 10 THEN <<DigitSeq[n + 1]>>
    ELSE <<DigitSeq[(n \div 10) + 1], DigitSeq[(n % 10) + 1]>>

\* parseInt of a string of digits.
RECURSIVE parseInt(_)
parseInt(s) ==
    IF Len(s) = 0 THEN 0
    ELSE 10 * parseInt(SubSeq(s, 1, Len(s) - 1))
         + (CHOOSE v \in 0..9 : DigitSeq[v + 1] = s[Len(s)])

\* The day number (days since 1970-01-01) of year y, month m (1..12), day d:
\* the timestamps of the model are whole days.
dayNumber(y, m, d) ==
    LET yy == IF m <= 2 THEN y - 1 ELSE y
        era == yy \div 400
        yoe == yy - era * 400
        doy == (153 * (IF m > 2 THEN m - 3 ELSE m + 9) + 2) \div 5 + d - 1
        doe == yoe * 365 + yoe \div 4 - yoe \div 100 + doy
    IN  era * 146097 + doe - 719468

InvalidDate == [valid |-> FALSE, day |-> 0]

\* new Date(dateStr), line 513, on the shapes of date string that the
\* engine's parser is relied on to read: an ISO 8601 date (with or without
\* a time), "Mon D, YYYY", and what toUTCString writes
\* ("Wed, 04 Nov 2026 00:00:00 GMT").  Free text such as "2 days ago", and a
\* date followed by other words ("Oct 3, 2024 5 mins"), give an Invalid Date.
isoDate ==
    Bol \o Mark(1) \o Rep(D, 4, 4, TRUE) \o Lit("-") \o Mark(2)
        \o Rep(D, 2, 2, TRUE) \o Lit("-") \o Mark(3) \o Rep(D, 2, 2, TRUE)
        \o Alt(<<Eol, Lit("T") \o Star(Dot) \o Eol>>)
monthDayYearOnly ==
    Bol \o Mark(1) \o AltWords(monthNames) \o Mark(2) \o Plus(Sp) \o Mark(3)
        \o Rep(D, 1, 2, TRUE) \o Mark(4) \o Lit(",") \o Plus(Sp) \o Mark(5)
        \o Rep(D, 4, 4, TRUE) \o Eol

utcDate ==
    Bol \o Rep(W, 3, 3, TRUE) \o Lit(",") \o Plus(Sp) \o Mark(1)
        \o Rep(D, 2, 2, TRUE) \o Mark(2) \o Plus(Sp) \o Mark(3)
        \o AltWords(monthNames) \o Mark(4) \o Plus(Sp) \o Mark(5)
        \o Rep(D, 4, 4, TRUE) \o Mark(6) \o Plus(Sp) \o Star(Dot) \o Eol

monthIndexOf(word) ==
    LET ks == {k \in 1..Len(monthNames) : Str(monthNames[k]) = word}
    IN  IF ks = {} THEN -1 ELSE MinOf(ks) - 1

titleCaseWord(word) ==
    [i \in 1..Len(word) |-> IF i = 1 THEN UpperOf(word[i]) ELSE LowerOf(word[i])]

\* The date that the year, month name and day between the given positions
\* of dateStr spell.
dateAt(dateStr, y1, y2, m1, m2, d1, d2) ==
    [valid |-> TRUE,
     day |-> dayNumber(parseInt(SubSeq(dateStr, y1, y2)),
                       monthIndexOf(titleCaseWord(SubSeq(dateStr, m1, m2))) + 1,
                       parseInt(SubSeq(dateStr, d1, d2)))]

newDate(dateStr) ==
    IF test(isoDate, dateStr)
    THEN [valid |-> TRUE,
          day |-> dayNumber(parseInt(SubSeq(dateStr, 1, 4)),
                            parseInt(SubSeq(dateStr, 6, 7)),
                            parseInt(SubSeq(dateStr, 9, 10)))]
    ELSE Only({
      IF mdy.ok
      THEN dateAt(dateStr, mdy.g[5], mdy.e - 1, mdy.g[1], mdy.g[2] - 1,
                  mdy.g[3], mdy.g[4] - 1)
      ELSE Only({
        IF utc.ok
        THEN dateAt(dateStr, utc.g[5], utc.g[6] - 1, utc.g[3], utc.g[4] - 1,
                    utc.g[1], utc.g[2] - 1)
        ELSE InvalidDate :
        utc \in {Search(utcDate, dateStr)} }) :
      mdy \in {Search(monthDayYearOnly, dateStr)} })

\* /(\w+)\s+(\d{1,2}),\s+(\d{4})/, line 520; marks 1-2, 3-4 and 5-6 bound
\* the three groups.
monthDayYear ==
    Mark(1) \o Plus(W) \o Mark(2) \o Plus(Sp) \o Mark(3) \o Rep(D, 1, 2, TRUE)
        \o Mark(4) \o Lit(",") \o Plus(Sp) \o Mark(5) \o Rep(D, 4, 4, TRUE)
        \o Mark(6)

\* date.setDate(date.getDate() - index * 7)
StaggerDays == 7

\* Lines 522-524: the index of the month that group 1 of the match names.
monthIndexOfMatch(dateStr, dateMatch) ==
    IF dateMatch.ok
    THEN monthIndexOf(SubSeq(dateStr, dateMatch.g[1], dateMatch.g[2] - 1))
    ELSE -1

\* Lines 505-547: the item's pubDate as a day number.  new Date and match
\* do not throw on a string, so the catch of line 535 is never entered.
resolvePubDate(article, index, now) ==
    IF article.pubDate = <<>> THEN now - index * StaggerDays
    ELSE Only({
      IF parsed.valid THEN parsed.day
      ELSE Only({
        IF dateMatch.ok /\ monthIndexOfMatch(article.pubDate, dateMatch) # -1
        THEN dayNumber(
                 parseInt(SubSeq(article.pubDate,
                                 dateMatch.g[5], dateMatch.g[6] - 1)),
                 monthIndexOfMatch(article.pubDate, dateMatch) + 1,
                 parseInt(SubSeq(article.pubDate,
                                 dateMatch.g[3], dateMatch.g[4] - 1)))
        ELSE now :
        dateMatch \in {Search(monthDayYear, article.pubDate)} }) :
      parsed \in {newDate(article.pubDate)} })

\* Line 553: the content of <description>.
cdataSection(text) == Str("<![CDATA[") \o text \o Str("]]>")

\* Lines 493-503 and 549-557: the content of each element of one <item>;
\* index is 0-based.
rssItemOf(article, index, now, description) ==
    [title |-> escapeXml(IF article.title # <<>> THEN article.title
                         ELSE Str("Article ") \o numberToString(index + 1)),
     link |-> escapeXml(article.url),
     description |-> cdataSection(escapeXml(description)),
     creator |-> escapeXml(IF article.author # <<>> THEN article.author
                           ELSE TargetAuthor),
     pubDate |-> resolvePubDate(article, index, now),
     guid |-> escapeXml(article.url)]

rssItem(article, index, now) ==
    Only({ rssItemOf(a, index, now,
                     IF a.description = <<>> \/ Len(a.description) < 10
                     THEN Str("Read the article \"") \o a.title
                          \o Str("\" by Sharon Machlis on InfoWorld.")
                     ELSE a.description) :
           a \in {article} })

\* A variant of the loop of line 492 that writes the items newest-last: the
\* records in the opposite order.
generateRSSReversed(articles, profileUrl, now) ==
    [link |-> escapeXml(profileUrl),
     lastBuildDate |-> now,
     items |-> [i \in 1..Len(articles) |->
                  rssItem(articles[Len(articles) + 1 - i], i - 1, now)]]

\* Lines 465-565: the document as its channel link, build date and items.
generateRSS(articles, profileUrl, now) ==
    [link |-> escapeXml(profileUrl),
     lastBuildDate |-> now,
     items |-> [i \in 1..Len(articles) |-> rssItem(articles[i], i - 1, now)]]

\* The markup of the document, token by token: start tags, end tags, the
\* empty atom:link element, and the content of the elements.  A date stands
\* for the text of toUTCString, which holds no markup character.
Open(name) == [t |-> "open", name |-> name]
Close(name) == [t |-> "close", name |-> name]
Content(text) == [t |-> "content", text |-> text]
DateContent(day) == [t |-> "date", day |-> day]
element(name, content) == <<Open(name), content, Close(name)>>

ChannelTitle == Str("Sharon Machlis - InfoWorld Articles")
ChannelDescription ==
    Str("Latest articles by Sharon Machlis on InfoWorld - Automatically generated RSS feed")

\* Lines 479-490: the declaration is not a token; <rss> and <channel> are
\* opened, the channel's own elements follow.
channelHead(doc) ==
    <<Open("rss"), Open("channel")>>
        \o element("title", Content(ChannelTitle))
        \o element("link", Content(doc.link))
        \o element("description", Content(ChannelDescription))
        \o element("language", Content(Str("en-us")))
        \o element("lastBuildDate", DateContent(doc.lastBuildDate))
        \o element("generator", Content(Str("GitHub Actions RSS Generator")))
        \o element("ttl", Content(Str("10080")))
        \o <<[t |-> "empty", name |-> "atom:link"]>>

\* Lines 549-557.
itemMarkup(item) ==
    <<Open("item")>>
        \o element("title", Content(item.title))
        \o element("link", Content(item.link))
        \o element("description", Content(item.description))
        \o element("dc:creator", Content(item.creator))
        \o element("pubDate", DateContent(item.pubDate))
        \o element("guid", Content(item.guid))
        \o <<Close("item")>>

\* A variant of the template that writes the end tags of <channel> and
\* <rss> with the last item instead of after the loop.
markupClosedWithLastItem(doc) ==
    channelHead(doc)
        \o Flatten([i \in 1..Len(doc.items) |->
                       itemMarkup(doc.items[i])
                           \o (IF i = Len(doc.items)
                               THEN <<Close("channel"), Close("rss")>>
                               ELSE <<>>)] \o <<>>,
                   1, Len(doc.items))

\* Lines 479-562: the head, one <item> per record (lines 492-558), and the
\* end tags of lines 560-562.
markup(doc) ==
    channelHead(doc)
        \o Flatten([i \in 1..Len(doc.items) |-> itemMarkup(doc.items[i])] \o <<>>,
                   1, Len(doc.items))
        \o <<Close("channel"), Close("rss")>>

(***************************************************************************)
(* The documents the model is run on                                       *)
(***************************************************************************)

MaxListing == 12
MaxShort == 1
MaxSpecial == 2

Entry(href, kids, pre, post) ==
    [href |-> href, kids |-> kids, pre |-> pre, post |-> post, wrap |-> TRUE,
     titleAttr |-> <<>>, ariaLabel |-> <<>>, item |-> FALSE, sels |-> {1, 6, 7},
     svg |-> FALSE]

ArticleUrl(path) == Str("https://www.infoworld.com/article/") \o path

\* s repeated n times.
Repeat(s, n) == Flatten([i \in 1..n |-> s], 1, n)

\* The n-th article of the author's listing: a link with a clean title in an
\* <article> of the main column, no summary and no date.
ListingEntry(n) ==
    Entry(ArticleUrl(numberToString(n) \o Str("/tidy-data-part-")
                     \o numberToString(n) \o Str(".html")),
          <<Node("text", Str("Tidy data part ") \o numberToString(n))>>,
          <<>>, <<>>)

\* Other entries a profile page can hold.
Specials ==
    << \* 1: a second link to the first article of the listing, other text
       Entry(ListingEntry(1).href,
             <<Node("text", Str("Tidy data part 1, updated"))>>, <<>>, <<>>),
       \* 2: another author's article
       Entry(ArticleUrl(Str("201/some-other-topic.html")),
             <<Node("text", Str("By Jane Doe Oct 3, 2024 5 mins Some Other Topic"))>>,
             <<>>, <<>>),
       \* 3: title, byline, date with reading time, category in one link
       Entry(ArticleUrl(Str("202/how-to-use-widgets.html")),
             <<Node("text", Str("How to Use Widgets By Sharon Machlis ")),
               TimeNode(<<>>, Str("Oct 3, 2024 5 mins")),
               Node("text", Str(" R Language"))>>,
             <<>>, <<>>),
       \* 4: a link whose text is the byline block only
       Entry(ArticleUrl(Str("203/fixing-common-bugs.html")),
             <<Node("text", Str("By Sharon Machlis Oct 3, 2024 5 mins"))>>,
             <<>>, <<>>),
       \* 5: a very long link text and a very long first paragraph
       Entry(ArticleUrl(Str("204/long-read.html")),
             <<Node("text", Repeat(Str("lorem "), 40))>>,
             <<>>, <<Node("p", Repeat(Str("ipsum "), 90))>>),
       \* 6: a very long link text under a "Trending" label
       Entry(ArticleUrl(Str("205/hot-topic.html")),
             <<Node("text", Repeat(Str("dolor "), 40))>>,
             <<Node("text", Str("Trending "))>>, <<>>),
       \* 7: an image link without text, beside a relative date
       Entry(ArticleUrl(Str("206/picture.html")),
             <<>>, <<>>, <<TimeNode(<<>>, Str("2 days ago"))>>),
       \* 8: reserved characters in the text, the url and the summary, and a
       \*    machine-readable date
       Entry(ArticleUrl(Str("207/r-tips.html?a=1&b=2")),
             <<Node("text", Str("R & \"tidy\" <data>: it's easy"))>>,
             <<>>,
             <<Node("summary", Str(" Use <b>dplyr</b> & \"tidyr\" in R's shell")),
               TimeNode(Str("2024-10-03T12:00:00Z"), <<>>)>>),
       \* 9: as 3, with a title of five characters
       Entry(ArticleUrl(Str("208/hello.html")),
             <<Node("text", Str("Hello By Sharon Machlis ")),
               TimeNode(<<>>, Str("Oct 3, 2024 5 mins")),
               Node("text", Str(" R Language"))>>,
             <<>>, <<>>),
       \* 10: a link outside <main> and outside every <article> and <section>,
       \*     which the last selector alone matches
       [Entry(ArticleUrl(Str("209/site-news-roundup.html")),
              <<Node("text", Str("Site news roundup"))>>, <<>>, <<>>)
          EXCEPT !.sels = {NSelectors}],
       \* 11: a link in a <div class="article-item"> of <main>, which the
       \*     second selector matches as a candidate beside the link
       [Entry(ArticleUrl(Str("210/release-notes-digest.html")),
              <<Node("text", Str("Release notes digest"))>>, <<>>, <<>>)
          EXCEPT !.item = TRUE],
       \* 12: a link of an inline <svg>
       [Entry(ArticleUrl(Str("211/chart-of-the-week.html")),
              <<Node("text", Str("Chart of the week"))>>, <<>>, <<>>)
          EXCEPT !.svg = TRUE],
       \* 13: the author's own article, with her byline, on a subject whose
       \*     name ends in "by"
       Entry(ArticleUrl(Str("212/ruby-on-rails-basics.html")),
             <<Node("text", Str("Ruby on Rails basics"))>>,
             <<>>, <<Node("byline", Str(" By Sharon Machlis"))>>) >>

\* Summaries at the limits of lines 323, 343 and 349, plain or with one of
\* the two placeholder phrases in them.
SummaryLengths == <<19, 20, 500, 501>>
SummaryKinds == <<"plain", "click to read", "read more">>

SummaryText(n, kind) ==
    IF kind = "plain" THEN Repeat(<<"a">>, n)
    ELSE IF kind = "click to read" THEN Str("Click To Read ") \o Repeat(<<"a">>, n - 14)
    ELSE Repeat(<<"a">>, n - 10) \o Str(" Read More")

\* An article of the listing with a summary of the k-th kind and the l-th
\* length beside its link.
SummaryEntry(l, k) ==
    Entry(ArticleUrl(Str("400/sample-article.html")),
          <<Node("text", Str("Sample article"))>>,
          <<>>,
          <<Node("summary", Str("  ") \o SummaryText(SummaryLengths[l], SummaryKinds[k])
                            \o Str(" "))>>)

\* A page item: the entry and where it lies.
ListingItem(n) == [src |-> "listing", n |-> n, region |-> "main"]
SpecialItem(k, region) == [src |-> "special", n |-> k, region |-> region]
SummaryItem(l, k, region) == [src |-> "summary", n |-> <<l, k>>, region |-> region]

ListingEntries == [n \in 1..MaxListing |-> ListingEntry(n)] \o <<>>

SummaryEntries ==
    [q \in (1..Len(SummaryLengths)) \X (1..Len(SummaryKinds)) |->
        SummaryEntry(q[1], q[2])]

entryOfItem(item) ==
    IF item.src = "listing" THEN ListingEntries[item.n]
    ELSE IF item.src = "special" THEN Specials[item.n]
    ELSE SummaryEntries[item.n]

SeqsUpTo(S, n) == UNION {[1..k -> S] : k \in 0..n}

\* Pages whose listing lies in an aside as a whole, behind a second link to
\* its first article or not.
AsidePages ==
    { [i \in 1..dup |-> SpecialItem(1, "aside")]
        \o [n \in 1..t |-> [ListingItem(n) EXCEPT !.region = "aside"]] :
        dup \in {0, 1}, t \in 1..MaxListing }

\* The pages: at most one special entry in the main column, then the first t
\* articles of the listing, then distinct special entries (in catalogue order)
\* in the main column or in an aside.  A page with a long listing holds at
\* most one special entry.  And the pages above.
Pages ==
    AsidePages \cup
    { [i \in 1..Len(pre) |-> SpecialItem(pre[i], "main")]
        \o [n \in 1..t |-> ListingItem(n)]
        \o [i \in 1..Len(post) |-> SpecialItem(post[i], region)] :
        <<pre, post, t, region>> \in
           { q \in SeqsUpTo(1..Len(Specials), 1)
                     \X SeqsUpTo(1..Len(Specials), MaxSpecial)
                     \X (0..MaxListing) \X {"main", "aside"} :
                /\ Len(q[1]) + Len(q[2]) <= MaxSpecial
                /\ \A i, j \in 1..Len(q[2]) : i < j => q[2][i] < q[2][j]
                /\ q[3] > MaxShort => Len(q[1]) + Len(q[2]) <= 1
                /\ q[2] = <<>> => q[4] = "main" } }

\* What the loop of the first page.evaluate pushes for the element tag of an
\* entry, and what the second page.evaluate maps an entry's link to, worked
\* out once per entry.
ListingRecords ==
    [n \in 1..MaxListing |-> processElement(Cand("A", ListingEntries[n]))] \o <<>>
SpecialRecords ==
    [k \in 1..Len(Specials) |-> processElement(Cand("A", Specials[k]))] \o <<>>
SpecialItemRecords ==
    [k \in 1..Len(Specials) |->
        IF Specials[k].item THEN processElement(Cand("DIV", Specials[k]))
        ELSE <<>>] \o <<>>
ListingLinks ==
    [n \in 1..MaxListing |-> alternativeLinks(ListingEntries[n])] \o <<>>
SpecialLinks ==
    [k \in 1..Len(Specials) |-> alternativeLinks(Specials[k])] \o <<>>

SummaryRecords ==
    [q \in (1..Len(SummaryLengths)) \X (1..Len(SummaryKinds)) |->
        processElement(Cand("A", SummaryEntries[q]))]
SummaryLinks ==
    [q \in (1..Len(SummaryLengths)) \X (1..Len(SummaryKinds)) |->
        alternativeLinks(SummaryEntries[q])]

pushedFor(tag, item) ==
    IF item.src = "listing" THEN (IF tag = "A" THEN ListingRecords[item.n] ELSE <<>>)
    ELSE IF item.src = "summary" THEN (IF tag = "A" THEN SummaryRecords[item.n] ELSE <<>>)
    ELSE IF tag = "A" THEN SpecialRecords[item.n]
    ELSE SpecialItemRecords[item.n]

linkRecords(item) ==
    IF item.src = "listing" THEN ListingLinks[item.n]
    ELSE IF item.src = "summary" THEN SummaryLinks[item.n]
    ELSE SpecialLinks[item.n]

ProfileUrl == Str("https://www.infoworld.com/profile/sharon-machlis/")

\* The day of the build: new Date().
BuildDay == dayNumber(2026, 11, 4)

(***************************************************************************)
(* scrapeInfoWorldProfile and main as a state machine                      *)
(***************************************************************************)

VARIABLES
    page,        \* the rendered document
    render,      \* how far the render steps of lines 49-67 have come
    pc,          \* where main is
    browser,     \* "none", "open" or "closed"
    profileUrl,  \* the address main scrapes and names in the channel
    articleData, \* what the loop of the first page.evaluate pushed
    articles,    \* what the first page.evaluate returned
    allLinks,    \* what the second page.evaluate returned
    alternative, \* whether the alternative pass produced the result
    result,      \* what scrapeInfoWorldProfile returned
    feed,        \* the document written to feed.xml
    exitCode     \* the status passed to process.exit, -1 when none

vars == <<page, render, pc, browser, profileUrl, articleData, articles, allLinks,
          alternative, result, feed, exitCode>>

NoFeed == [kind |-> "none", link |-> <<>>, lastBuildDate |-> 0, items |-> <<>>]

\* No render step has run: no navigation, no delay, no content wait, no
\* scroll, and no timer of autoScroll is pending in the page.
\* Of autoScroll: whether its promise has resolved (scrolled), the 5000 ms
\* timer and the 100 ms interval, totalHeight, and the height left to scroll
\* (document.body.scrollHeight - window.innerHeight), both in steps of
\* distance = 100 pixels.
NotRendered ==
    [navigation |-> "pending", settled |-> FALSE, contentWait |-> "pending",
     scrolled |-> FALSE, timer |-> "none", interval |-> "none",
     totalHeight |-> 0, scrollHeight |-> 0]

Init ==
    /\ page \in Pages
    /\ render = NotRendered
    /\ pc = "start"
    /\ browser = "none"
    /\ profileUrl = ProfileUrl
    /\ articleData = <<>>
    /\ articles = <<>>
    /\ allLinks = <<>>
    /\ alternative = FALSE
    /\ result = <<>>
    /\ feed = NoFeed
    /\ exitCode = -1

\* A variant of the loop without the try of line 138: the first candidate
\* whose processing throws ends the loop, and what was pushed before it is
\* all there is.
extractUntilError(doc) ==
    Only({ Flatten([r \in 1..Len(elements) |->
                       IF \E q \in 1..r :
                             throws(Cand(elements[q][2], entryOfItem(doc[elements[q][1]])))
                       THEN <<>>
                       ELSE pushedFor(elements[r][2], doc[elements[r][1]])],
                   1, Len(elements)) :
           elements \in
             { Only({ uniqueElements(Len(doc), entries, regions) :
                      entries \in {[i \in 1..Len(doc) |->
                                      entryOfItem(doc[i])] \o <<>>},
                      regions \in {[i \in 1..Len(doc) |->
                                      doc[i].region] \o <<>>} }) } })

\* Lines 73-387: the records the loop of the first page.evaluate pushes, in
\* the order of the unique elements.
extractArticleData(doc) ==
    Only({ Flatten([r \in 1..Len(elements) |->
                       pushedFor(elements[r][2], doc[elements[r][1]])],
                   1, Len(elements)) :
           elements \in
             { Only({ uniqueElements(Len(doc), entries, regions) :
                      entries \in {[i \in 1..Len(doc) |->
                                      entryOfItem(doc[i])] \o <<>>},
                      regions \in {[i \in 1..Len(doc) |->
                                      doc[i].region] \o <<>>} }) } })

\* Lines 408-417: the second page.evaluate, over every link of the document
\* whose href contains "/article/".
extractAllLinks(doc, maxArticles) ==
    slice(Flatten([i \in 1..Len(doc) |-> linkRecords(doc[i])], 1, Len(doc)),
          maxArticles)

\* Line 28: puppeteer.launch resolves.
Launch ==
    /\ pc = "start"
    /\ pc' = "launched"
    /\ browser' = "open"
    /\ UNCHANGED <<page, render, profileUrl, articleData, articles, allLinks,
                   alternative, result, feed, exitCode>>

\* Line 28: puppeteer.launch rejects; no browser to close.
LaunchFails ==
    /\ pc = "start"
    /\ pc' = "failed"
    /\ UNCHANGED <<page, render, browser, profileUrl, articleData, articles,
                   allLinks, alternative, result, feed, exitCode>>

\* Lines 42-52: newPage, setViewport, setUserAgent and page.goto resolve.
Goto ==
    /\ pc = "launched"
    /\ render' = [render EXCEPT !.navigation = "done"]
    /\ pc' = "navigated"
    /\ UNCHANGED <<page, browser, profileUrl, articleData, articles,
                   allLinks, alternative, result, feed, exitCode>>

\* Lines 42-52 throw: the catch of line 426 rethrows, the finally closes the
\* browser.
GotoFails ==
    /\ pc = "launched"
    /\ render' = [render EXCEPT !.navigation = "error"]
    /\ pc' = "failed"
    /\ browser' = "closed"
    /\ UNCHANGED <<page, profileUrl, articleData, articles, allLinks,
                   alternative, result, feed, exitCode>>

\* Lines 49-52: the page is not idle within the 60000 ms of the timeout
\* option; page.goto rejects with a TimeoutError, which no try of lines
\* 49-52 catches: the catch of line 426 rethrows it.
GotoTimeout ==
    /\ pc = "launched"
    /\ render' = [render EXCEPT !.navigation = "timeout"]
    /\ pc' = "failed"
    /\ browser' = "closed"
    /\ UNCHANGED <<page, profileUrl, articleData, articles, allLinks,
                   alternative, result, feed, exitCode>>

\* Line 55: the 3000 ms delay.
Settle ==
    /\ pc = "navigated"
    /\ render' = [render EXCEPT !.settled = TRUE]
    /\ pc' = "settled"
    /\ UNCHANGED <<page, browser, profileUrl, articleData, articles,
                   allLinks, alternative, result, feed, exitCode>>

\* Lines 58-61: waitForSelector finds an element.
ContentFound ==
    /\ pc = "settled"
    /\ render' = [render EXCEPT !.contentWait = "found"]
    /\ pc' = "waited"
    /\ UNCHANGED <<page, browser, profileUrl, articleData, articles,
                   allLinks, alternative, result, feed, exitCode>>

\* Lines 58-64: waitForSelector rejects after 15000 ms; the catch of line 62
\* logs and goes on.
ContentTimeout ==
    /\ pc = "settled"
    /\ render' = [render EXCEPT !.contentWait = "timeout"]
    /\ pc' = "waited"
    /\ UNCHANGED <<page, browser, profileUrl, articleData, articles,
                   allLinks, alternative, result, feed, exitCode>>

\* Lines 67 and 437-461: autoScroll resolves, from its interval when the
\* bottom is reached (the 5000 ms timer is still pending in the page) or
\* from that timer.
AutoScroll ==
    /\ pc = "waited"
    /\ \E timer \in {"armed", "spent"} :
          render' = [render EXCEPT !.scrolled = TRUE, !.timer = timer,
                                   !.interval = "cleared"]
    /\ pc' = "loaded"
    /\ UNCHANGED <<page, browser, profileUrl, articleData, articles,
                   allLinks, alternative, result, feed, exitCode>>

\* Line 67: the page.evaluate of autoScroll rejects (the page was lost); the
\* catch of line 426 rethrows, the finally closes the browser.
AutoScrollFails ==
    /\ pc = "waited"
    /\ pc' = "failed"
    /\ browser' = "closed"
    /\ UNCHANGED <<page, render, profileUrl, articleData, articles, allLinks,
                   alternative, result, feed, exitCode>>

\* Lines 455-458: the pending timer of autoScroll fires in the page after
\* autoScroll has resolved: clearInterval of a cleared interval and resolve
\* of a settled promise, neither of which does anything.
StaleTimer ==
    /\ browser = "open"
    /\ render.scrolled
    /\ render.timer = "armed"
    /\ render' = [render EXCEPT !.timer = "spent"]
    /\ UNCHANGED <<page, pc, browser, profileUrl, articleData, articles,
                   allLinks, alternative, result, feed, exitCode>>

\* A variant of the first page.evaluate in which the Set of line 118 does not
\* keep the order of insertion: its elements come out in that order or in
\* the opposite one.
EvaluateAnyOrder ==
    /\ pc = "loaded"
    /\ \E data \in {extractArticleData(page)} :
          \E order \in {data, [i \in 1..Len(data) |-> data[Len(data) + 1 - i]]} :
             /\ articleData' = order
             /\ articles' = dedupByUrl(order)
    /\ pc' = "extracted"
    /\ UNCHANGED <<page, render, browser, profileUrl, allLinks, alternative, result,
                   feed, exitCode>>

\* A variant of the first page.evaluate that follows an autoScroll(page)
\* without await: it may start while the page is still being scrolled.
EvaluateUnawaited ==
    /\ pc \in {"waited", "loaded"}
    /\ articleData' = extractArticleData(page)
    /\ articles' = dedupByUrl(articleData')
    /\ pc' = "extracted"
    /\ UNCHANGED <<page, render, browser, profileUrl, allLinks, alternative, result,
                   feed, exitCode>>

\* Lines 73-393.
Evaluate ==
    /\ pc = "loaded"
    /\ articleData' = extractArticleData(page)
    /\ articles' = dedupByUrl(articleData')
    /\ pc' = "extracted"
    /\ UNCHANGED <<page, render, browser, profileUrl, allLinks, alternative, result,
                   feed, exitCode>>

\* Line 73: page.evaluate rejects (the page crashed or was navigated away).
EvaluateFails ==
    /\ pc = "loaded"
    /\ pc' = "failed"
    /\ browser' = "closed"
    /\ UNCHANGED <<page, render, profileUrl, articleData, articles, allLinks,
                   alternative, result, feed, exitCode>>

\* Lines 398-405 and 424, 429-433: some article was extracted.
ReturnLimited ==
    /\ pc = "extracted"
    /\ Len(slice(articles, MAX_ARTICLES)) # 0
    /\ result' = slice(articles, MAX_ARTICLES)
    /\ browser' = "closed"
    /\ pc' = "returned"
    /\ UNCHANGED <<page, render, profileUrl, articleData, articles, allLinks,
                   alternative, feed, exitCode>>

\* Line 416: item.url.includes is not a function for the link of an <svg>;
\* the filter throws and the second page.evaluate rejects.
filterThrows(doc) ==
    \E i \in 1..Len(doc) : entryOfItem(doc[i]).svg

\* Lines 405-417: none was; the second page.evaluate.
AlternativeExtraction ==
    /\ pc = "extracted"
    /\ Len(slice(articles, MAX_ARTICLES)) = 0
    /\ ~filterThrows(page)
    /\ allLinks' = extractAllLinks(page, MAX_ARTICLES)
    /\ alternative' = TRUE
    /\ pc' = "alternative"
    /\ UNCHANGED <<page, render, browser, profileUrl, articleData, articles, result,
                   feed, exitCode>>

\* Lines 405-417 throw: the filter of line 416, or the page is lost; the
\* catch of line 426 rethrows, the finally closes the browser.
AlternativeFails ==
    /\ pc = "extracted"
    /\ Len(slice(articles, MAX_ARTICLES)) = 0
    /\ pc' = "failed"
    /\ browser' = "closed"
    /\ UNCHANGED <<page, render, profileUrl, articleData, articles, allLinks,
                   alternative, result, feed, exitCode>>

\* A variant of the return of line 421 that is not followed by the finally
\* of lines 429-433: the browser stays open.
ReturnAlternativeLeaking ==
    /\ pc = "alternative"
    /\ result' = dedupByUrl(allLinks)
    /\ pc' = "returned"
    /\ UNCHANGED <<page, render, browser, profileUrl, articleData, articles,
                   allLinks, alternative, feed, exitCode>>

\* Lines 419-421, 429-433.
ReturnAlternative ==
    /\ pc = "alternative"
    /\ result' = dedupByUrl(allLinks)
    /\ browser' = "closed"
    /\ pc' = "returned"
    /\ UNCHANGED <<page, render, profileUrl, articleData, articles, allLinks,
                   alternative, feed, exitCode>>

\* Lines 586-592: the record of the notice feed; pubDate is
\* new Date().toUTCString() on the day of the build.
NoticeRecord ==
    [title |-> Str("Feed Generation Notice"),
     url |-> profileUrl,
     description |->
         Str("The RSS feed generator could not find articles. Please check the source page."),
     pubDate |-> Str("Wed, 04 Nov 2026 00:00:00 GMT"),
     author |-> Str("System")]

\* A variant of the branch of lines 582-598 that exits without writing.
ExitWithoutNotice ==
    /\ pc = "returned"
    /\ Len(result) = 0
    /\ exitCode' = 0
    /\ pc' = "done"
    /\ UNCHANGED <<page, render, browser, profileUrl, articleData, articles,
                   allLinks, alternative, result, feed>>

\* A variant of the branch of lines 582-598 without the process.exit(0) of
\* line 597: main goes on to lines 600-603 and writes the article feed of no
\* record over the notice.
WriteNoticeThenArticleFeed ==
    /\ pc = "returned"
    /\ Len(result) = 0
    /\ feed' = [kind |-> "articles"] @@ generateRSS(result, profileUrl, BuildDay)
    /\ pc' = "done"
    /\ UNCHANGED <<page, render, browser, profileUrl, articleData, articles,
                   allLinks, alternative, result, exitCode>>

\* Lines 582-598: no article; the notice feed, exit status 0.
WriteNoticeFeed ==
    /\ pc = "returned"
    /\ Len(result) = 0
    /\ feed' = [kind |-> "notice"] @@ generateRSS(<<NoticeRecord>>, profileUrl, BuildDay)
    /\ exitCode' = 0
    /\ pc' = "done"
    /\ UNCHANGED <<page, render, browser, profileUrl, articleData, articles,
                   allLinks, alternative, result>>

\* Lines 600-604: the article feed.
WriteArticleFeed ==
    /\ pc = "returned"
    /\ Len(result) # 0
    /\ feed' = [kind |-> "articles"] @@ generateRSS(result, profileUrl, BuildDay)
    /\ pc' = "done"
    /\ UNCHANGED <<page, render, browser, profileUrl, articleData, articles,
                   allLinks, alternative, result, exitCode>>

\* A variant of the catch of main that ends the process with status 1
\* without writing a feed, as an unhandled rejection would.
CrashUnhandled ==
    /\ pc = "failed"
    /\ exitCode' = 1
    /\ pc' = "done"
    /\ UNCHANGED <<page, render, browser, profileUrl, articleData, articles,
                   allLinks, alternative, result, feed>>

\* Lines 630-652: the error feed, written as it stands (nothing is escaped),
\* exit status 1.
WriteErrorFeed ==
    /\ pc = "failed"
    /\ feed' = [kind |-> "error",
                link |-> profileUrl,
                lastBuildDate |-> BuildDay,
                items |-> << [title |-> Str("Feed Generation Error"),
                              link |-> profileUrl,
                              description |->
                                  Str("An error occurred while generating the RSS feed. It will retry on the next scheduled run."),
                              creator |-> <<>>,
                              pubDate |-> BuildDay,
                              guid |-> <<>>] >>]
    /\ exitCode' = 1
    /\ pc' = "done"
    /\ UNCHANGED <<page, render, browser, profileUrl, articleData, articles,
                   allLinks, alternative, result>>

Next ==
    \/ Launch
    \/ LaunchFails
    \/ Goto
    \/ GotoFails
    \/ GotoTimeout
    \/ Settle
    \/ ContentFound
    \/ ContentTimeout
    \/ AutoScroll
    \/ AutoScrollFails
    \/ StaleTimer
    \/ Evaluate
    \/ EvaluateFails
    \/ ReturnLimited
    \/ AlternativeExtraction
    \/ AlternativeFails
    \/ ReturnAlternative
    \/ WriteNoticeFeed
    \/ WriteArticleFeed
    \/ WriteErrorFeed

Spec == Init /\ [][Next]_vars

\* Every await of lines 28-73, 407 and 431 settles within its timeout, and
\* the continuation of a settled await is run: main goes on while it can.
\* The progress of main does not depend on what the page holds beyond whether
\* it yields records: the fair behaviours are checked on the short pages.
MaxFairPage == 2

FairInit == Init /\ Len(page) <= MaxFairPage

FairSpec == FairInit /\ [][Next]_vars /\ WF_vars(Next)

(***************************************************************************)
(* autoScroll, timer by timer                                              *)
(***************************************************************************)

MaxHeight == 4
MaxScroll == 6

\* Lines 438-459 up to the first timer: both timers are set, nothing is
\* scrolled yet; the page is of any height.
InitScroll ==
    /\ \E h \in 0..MaxHeight, wait \in {"found", "timeout"} :
          render = [navigation |-> "done", settled |-> TRUE, contentWait |-> wait,
                    scrolled |-> FALSE, timer |-> "armed", interval |-> "set",
                    totalHeight |-> 0, scrollHeight |-> h]
    /\ page \in {<<>>, <<ListingItem(1)>>}
    /\ pc = "waited"
    /\ browser = "open"
    /\ profileUrl = ProfileUrl
    /\ articleData = <<>>
    /\ articles = <<>>
    /\ allLinks = <<>>
    /\ alternative = FALSE
    /\ result = <<>>
    /\ feed = NoFeed
    /\ exitCode = -1

\* A variant of the callback of lines 456-459 that clears the interval and
\* does not resolve.
CapTimerOnlyClears ==
    /\ render.timer = "armed"
    /\ ~render.scrolled
    /\ render' = [render EXCEPT !.timer = "spent", !.interval = "cleared"]
    /\ UNCHANGED <<page, pc, browser, profileUrl, articleData, articles, allLinks,
                   alternative, result, feed, exitCode>>

\* Lines 444-453: the interval fires.  The page may have grown by a step
\* since the last time (lazy loading); scrollBy, totalHeight += distance;
\* at the bottom the interval is cleared and the promise resolved, and the
\* await of line 67 goes on.
ScrollTick ==
    /\ render.interval = "set"
    /\ render.totalHeight < MaxScroll
    /\ \E grown \in {0, 1} :
          IF render.totalHeight + 1 >= render.scrollHeight + grown
          THEN /\ render' = [render EXCEPT !.scrollHeight = @ + grown,
                                           !.totalHeight = @ + 1,
                                           !.interval = "cleared",
                                           !.scrolled = TRUE]
               /\ pc' = "loaded"
          ELSE /\ render' = [render EXCEPT !.scrollHeight = @ + grown,
                                           !.totalHeight = @ + 1]
               /\ pc' = pc
    /\ UNCHANGED <<page, browser, profileUrl, articleData, articles, allLinks,
                   alternative, result, feed, exitCode>>

\* Lines 456-459: the 5000 ms timer fires before the bottom was reached:
\* the interval is cleared and the promise resolved.
CapTimer ==
    /\ render.timer = "armed"
    /\ ~render.scrolled
    /\ render' = [render EXCEPT !.timer = "spent", !.interval = "cleared",
                                !.scrolled = TRUE]
    /\ pc' = "loaded"
    /\ UNCHANGED <<page, browser, profileUrl, articleData, articles, allLinks,
                   alternative, result, feed, exitCode>>

NextScroll == ScrollTick \/ CapTimer \/ StaleTimer \/ Evaluate

\* A timer that is set fires: the page's event loop runs as long as the
\* browser is open.
SpecScroll ==
    InitScroll /\ [][NextScroll]_vars
        /\ WF_vars(ScrollTick) /\ WF_vars(CapTimer) /\ WF_vars(StaleTimer)

(***************************************************************************)
(* main run on a page that holds one article with a summary                *)
(***************************************************************************)

InitSummaries ==
    /\ page \in {<<>>} \cup
                { <<SummaryItem(l, k, region)>> :
                    l \in 1..Len(SummaryLengths), k \in 1..Len(SummaryKinds),
                    region \in {"main", "aside"} }
    /\ render = NotRendered
    /\ pc = "start"
    /\ browser = "none"
    /\ profileUrl = ProfileUrl
    /\ articleData = <<>>
    /\ articles = <<>>
    /\ allLinks = <<>>
    /\ alternative = FALSE
    /\ result = <<>>
    /\ feed = NoFeed
    /\ exitCode = -1

SpecSummaries == InitSummaries /\ [][Next]_vars

(***************************************************************************)
(* main run a second time on the unchanged document                        *)
(***************************************************************************)

\* Line 657, at the next scheduled run: main starts again while the site
\* serves the same document.  feed.xml is as the earlier run wrote it, and
\* result keeps what scrapeInfoWorldProfile returned to that run until the
\* new run's own return.
RunAgain ==
    /\ pc = "done"
    /\ feed.kind \in {"articles", "notice"}
    /\ pc' = "start"
    /\ render' = NotRendered
    /\ browser' = "none"
    /\ articleData' = <<>>
    /\ articles' = <<>>
    /\ allLinks' = <<>>
    /\ alternative' = FALSE
    /\ exitCode' = -1
    /\ UNCHANGED <<page, profileUrl, result, feed>>

NextTwice == Next \/ RunAgain

SpecTwice == Init /\ [][NextTwice]_vars

(***************************************************************************)
(* generateRSS on its own: records that main never passes to it            *)
(***************************************************************************)

MaxTokens == 2
MaxIndex == 2

\* The pieces the texts are built from: the five reserved characters,
\* ordinary text that is also the tail of an entity, and the two pieces that
\* with < and > make the start and the end of a CDATA section.
Tokens == << Str("&"), Str("<"), Str(">"), Str("\""), Str("'"), Str("amp;"),
            Str("]]"), Str("<![CDATA[") >>

Texts ==
    { Flatten([i \in 1..Len(q) |-> Tokens[q[i]]], 1, Len(q)) :
        q \in SeqsUpTo(1..Len(Tokens), MaxTokens) }

\* A pubDate that is absent, relative, "Mon D, YYYY", ISO 8601, or spelt with
\* the month's full name, each beside a description that is the text alone
\* or the text followed by enough ordinary text to be kept.
Variants ==
    { [date |-> <<>>, long |-> TRUE],
      [date |-> Str("2 days ago"), long |-> FALSE],
      [date |-> Str("Oct 3, 2024"), long |-> TRUE],
      [date |-> Str("2024-10-03T12:00:00Z"), long |-> FALSE],
      [date |-> Str("October 3, 2024"), long |-> TRUE] }

PlainRecord(n) ==
    [title |-> Str("Plain article ") \o numberToString(n),
     url |-> ArticleUrl(Str("30") \o numberToString(n) \o Str("/plain.html")),
     description |-> Str("A plain description of the article."),
     pubDate |-> <<>>,
     author |-> TargetAuthor]

\* A record whose every text field holds x.
TextRecord(x, date, long) ==
    [title |-> x,
     url |-> ArticleUrl(Str("300/a.html?")) \o x,
     description |-> IF long THEN x \o Str(" in ordinary text") ELSE x,
     pubDate |-> date,
     author |-> x]

\* generateRSS is called with k plain records and a record of texts, or with
\* no record at all; beside the latter stands main with no record returned
\* to it (line 581).
InitRSS ==
    /\ \E x \in Texts :
          /\ profileUrl = ProfileUrl \o x
          /\ \/ /\ \E v \in Variants, k \in 0..MaxIndex :
                      result = [n \in 1..k |-> PlainRecord(n)]
                                  \o <<TextRecord(x, v.date, v.long)>>
                /\ pc = "serialize"
             \/ /\ result = <<>>
                /\ pc \in {"serialize", "returned"}
    /\ page = <<>>
    /\ render = NotRendered
    /\ browser = "none"
    /\ articleData = <<>>
    /\ articles = <<>>
    /\ allLinks = <<>>
    /\ alternative = FALSE
    /\ feed = NoFeed
    /\ exitCode = -1

\* Lines 465-565: one call of generateRSS.
Serialize ==
    /\ pc = "serialize"
    /\ feed' = [kind |-> "articles"] @@ generateRSS(result, profileUrl, BuildDay)
    /\ pc' = "done"
    /\ UNCHANGED <<page, render, browser, profileUrl, articleData, articles,
                   allLinks, alternative, result, exitCode>>

NextRSS == Serialize \/ WriteNoticeFeed

SpecRSS == InitRSS /\ [][NextRSS]_vars

(***************************************************************************)
(* What a reader of the document does                                      *)
(***************************************************************************)

Reserved == {"&", "<", ">", "\"", "'"}

EntityOf(c) ==
    CASE c = "&" -> Str("&amp;")
      [] c = "<" -> Str("&lt;")
      [] c = ">" -> Str("&gt;")
      [] c = "\"" -> Str("&quot;")
      [] c = "'" -> Str("&apos;")

\* s with every reserved character replaced, once, by its entity.
EscapeOnce(s) ==
    Flatten([i \in 1..Len(s) |->
                IF s[i] \in Reserved THEN EntityOf(s[i]) ELSE <<s[i]>>],
            1, Len(s))

\* The character data an XML parser reads from element content s: each of
\* the five predefined entity references stands for its character.
XmlDecode(s) ==
    LET entityAt(i) ==
            {c \in Reserved : At(s, EntityOf(c), i)}
        starts == {i \in 1..Len(s) : entityAt(i) # {}}
        charAt(i) == CHOOSE c \in entityAt(i) : TRUE
        inside(i) == \E j \in starts :
                        j < i /\ i <= j + Len(EntityOf(charAt(j))) - 1
    IN  Flatten([i \in 1..Len(s) |->
                    IF i \in starts THEN <<charAt(i)>>
                    ELSE IF inside(i) THEN <<>>
                    ELSE <<s[i]>>],
                1, Len(s))

\* The character data an XML parser reads from the content of an element:
\* a CDATA section gives the text up to its first "]]>" as it stands, other
\* content is decoded.
ParseContent(s) ==
    IF startsWith(s, Str("<![CDATA["))
    THEN LET ends == {i \in 10..Len(s) : At(s, Str("]]>"), i)}
         IN  IF ends = {} THEN SubSeq(s, 10, Len(s))
             ELSE SubSeq(s, 10, MinOf(ends) - 1)
    ELSE XmlDecode(s)

\* Element content that a parser accepts: one CDATA section whose only
\* "]]>" is its end, or character data in which no "<" occurs and every "&"
\* begins one of the five entity references.
ContentAccepted(s) ==
    IF startsWith(s, Str("<![CDATA["))
    THEN /\ Len(s) >= 12
         /\ \A i \in 10..Len(s) : At(s, Str("]]>"), i) <=> i = Len(s) - 2
    ELSE \A i \in 1..Len(s) :
            /\ s[i] # "<"
            /\ s[i] = "&" => \E c \in Reserved : At(s, EntityOf(c), i)

\* The number of elements open after the token at place i.
depthAfter(tokens, i) ==
    Cardinality({k \in 1..i : tokens[k].t = "open"})
        - Cardinality({k \in 1..i : tokens[k].t = "close"})

\* The start tag that the end tag at place j ends: the last one before it
\* that is one level deeper than the place after j.
startOf(tokens, j) ==
    MaxOf({k \in 1..(j - 1) : /\ tokens[k].t = "open"
                             /\ depthAfter(tokens, k) = depthAfter(tokens, j) + 1})

\* A well-formed document: one root element that ends with the last token,
\* every end tag ends the start tag of its own name, and every content is
\* accepted.
WellFormed(tokens) ==
    /\ Len(tokens) >= 2
    /\ tokens[1].t = "open"
    /\ \A i \in 1..(Len(tokens) - 1) : depthAfter(tokens, i) >= 1
    /\ depthAfter(tokens, Len(tokens)) = 0
    /\ \A j \in 1..Len(tokens) :
          tokens[j].t = "close" => tokens[startOf(tokens, j)].name = tokens[j].name
    /\ \A i \in 1..Len(tokens) :
          tokens[i].t = "content" => ContentAccepted(tokens[i].text)

\* The number of elements of a name in a document.
elementCount(tokens, name) ==
    Cardinality({i \in 1..Len(tokens) : tokens[i] = Open(name)})

(***************************************************************************)
(* Properties of the record sequence scrapeInfoWorldProfile returns        *)
(***************************************************************************)

Returned == pc \in {"returned", "done"} /\ exitCode # 1

hrefOf(i) == entryOfItem(page[i]).href

\* C1: the sequence scrapeInfoWorldProfile returns never holds two records
\* with the same url, whether the main pass or the alternative pass made it,
\* also when several links of the page share one href.
C1_UniqueUrls ==
    \A i, j \in 1..Len(result) : i # j => result[i].url # result[j].url

\* The alternative pass has returned from a page on which two links share an
\* href: it collected two records with one url and returned one.
C1_Witness ==
    /\ pc = "returned"
    /\ alternative
    /\ \E i, j \in 1..Len(allLinks) : i # j /\ allLinks[i].url = allLinks[j].url
    /\ Len(result) >= 1

\* The main pass has returned from such a page.
C1_WitnessMain ==
    /\ pc = "returned"
    /\ ~alternative
    /\ \E i, j \in 1..Len(articleData) :
          i # j /\ articleData[i].url = articleData[j].url

\* C2: every record scrapeInfoWorldProfile returns has a title of at most 200
\* characters and a description of at most 500, on either return path and
\* however long the link's text is.
C2_LengthCaps ==
    \A i \in 1..Len(result) :
        /\ Len(result[i].title) <= 200
        /\ Len(result[i].description) <= 500

\* What holds of the main pass alone: its records keep the caps.
C2_MainPassCaps ==
    ~alternative => C2_LengthCaps

\* C3: no record scrapeInfoWorldProfile returns has an empty title and no item
\* generateRSS emits has an empty <title>; a link with no text at all gets
\* the sentinel 'Untitled Article' (main pass) or 'Article' (alternative
\* pass) for a title.
C3_NoEmptyTitle ==
    /\ \A i \in 1..Len(result) : result[i].title # <<>>
    /\ \A i \in 1..Len(feed.items) : feed.items[i].title # <<>>
    /\ \A i \in 1..Len(result), k \in 1..Len(page) :
          (/\ Returned
           /\ result[i].url = hrefOf(k)
           /\ textContent(entryOfItem(page[k]).kids) = <<>>
           /\ \A o \in 1..Len(page) : hrefOf(o) = hrefOf(k) => o = k)
          => result[i].title \in {UntitledArticle, ArticleSentinel}

\* The article feed has been written from a main-pass result that holds the
\* record of a link without text, titled with the sentinel.
C3_Witness ==
    /\ pc = "done"
    /\ feed.kind = "articles"
    /\ ~alternative
    /\ \E i \in 1..Len(result), k \in 1..Len(page) :
          /\ result[i].url = hrefOf(k)
          /\ textContent(entryOfItem(page[k]).kids) = <<>>
          /\ result[i].title = UntitledArticle
          /\ feed.items[i].title = UntitledArticle

\* A title that is the byline block: "By <author> ... <n> mins".
IsMetadataBlob(title) ==
    startsWith(title, Str("By ")) /\ includes(title, Str(" mins"))

\* C4: no record scrapeInfoWorldProfile returns has the raw metadata blob (a
\* title beginning with the byline 'By <author> ...') for a title, for every
\* link text and on both return paths.
C4_NoBlobTitle ==
    \A i \in 1..Len(result) : ~IsMetadataBlob(result[i].title)

\* What holds of the main pass alone.
C4_MainPassNoBlobTitle ==
    ~alternative => C4_NoBlobTitle

\* The entry of the catalogue whose text is another author's byline.
OtherAuthorUrl == ArticleUrl(Str("201/some-other-topic.html"))

\* C5: a link whose container text holds a byline naming another author ('By
\* Jane Doe Oct 3, 2024 5 mins Some Other Topic') is rejected entirely: no
\* record with its url is returned, under any title, on any path, also when
\* every candidate of the page is rejected.
C5_OtherAuthorRejected ==
    \A i \in 1..Len(result) : result[i].url # OtherAuthorUrl

\* What holds of the main pass alone.
C5_MainPassRejects ==
    ~alternative => C5_OtherAuthorRejected

\* The returned sequence is the first min(n, MAX_ARTICLES) of the n records of
\* the main pass.
FirstOfMainPass ==
    /\ Len(result) = Min(Len(articles), MAX_ARTICLES)
    /\ \A i \in 1..Len(result) : result[i] = articles[i]

CollapsedFrom(out, items) ==
    LET firstIndex(u) == MinOf({j \in 1..Len(items) : items[j].url = u})
        lastIndex(u) == MaxOf({j \in 1..Len(items) : items[j].url = u})
    IN  /\ {out[i].url : i \in 1..Len(out)} = {items[j].url : j \in 1..Len(items)}
        /\ \A i, j \in 1..Len(out) :
              i < j => firstIndex(out[i].url) < firstIndex(out[j].url)
        /\ \A i \in 1..Len(out) : out[i] = items[lastIndex(out[i].url)]

\* C7: de-duplication leaves one record per url, each url at the place of
\* its first occurrence in discovery order (the order of distinct urls is
\* unchanged), with the fields of the last record seen for that url.
C7_FirstPlaceLastFields ==
    /\ CollapsedFrom(articles, articleData)
    /\ (pc \in {"returned", "done"} /\ alternative) => CollapsedFrom(result, allLinks)

\* A url was extracted twice with different fields, another url in between.
C7_Witness ==
    /\ pc = "extracted"
    /\ \E i, j, k \in 1..Len(articleData) :
          /\ i < j /\ j < k
          /\ articleData[i].url = articleData[k].url
          /\ articleData[i].title # articleData[k].title
          /\ articleData[j].url # articleData[i].url
          /\ articles[1] = articleData[k]

\* Whether generateRSS can read a date from pubDate, and the day it reads.
Parseable(pubDate) ==
    \/ newDate(pubDate).valid
    \/ LET m == Search(monthDayYear, pubDate)
       IN  m.ok /\ monthIndexOf(SubSeq(pubDate, m.g[1], m.g[2] - 1)) # -1

\* C8: generateRSS gives an item the record's own date when pubDate is
\* parseable, and otherwise (pubDate empty, or not empty but not parseable)
\* the build time minus index times a fixed interval, so that of two records
\* without a parseable date the earlier one gets the strictly newer date.
C8_SyntheticDates ==
    feed.kind = "articles" =>
        /\ \A i \in 1..Len(feed.items) :
              ~Parseable(result[i].pubDate) =>
                  feed.items[i].pubDate = BuildDay - (i - 1) * StaggerDays
        /\ \A i, j \in 1..Len(feed.items) :
              (/\ i < j
               /\ ~Parseable(result[i].pubDate)
               /\ ~Parseable(result[j].pubDate))
              => feed.items[i].pubDate > feed.items[j].pubDate

\* What holds: the rule for a record without a pubDate, and for one whose
\* pubDate is not parseable the build time itself.
C8_DatesAsWritten ==
    feed.kind = "articles" =>
        \A i \in 1..Len(feed.items) :
            ~Parseable(result[i].pubDate) =>
                feed.items[i].pubDate =
                    IF result[i].pubDate = <<>>
                    THEN BuildDay - (i - 1) * StaggerDays
                    ELSE BuildDay

\* C9: in the document generateRSS produces, the title, link, guid,
\* description, creator and channel link have each occurrence of the five
\* reserved characters replaced by its entity, & first, so that no entity
\* written by the escaping is escaped again.
C9_EscapedOnce ==
    feed.kind = "articles" =>
        /\ feed.link = EscapeOnce(profileUrl)
        /\ \A i \in 1..Len(feed.items) :
              LET a == result[i]
                  item == feed.items[i]
                  inner == SubSeq(item.description, 10, Len(item.description) - 3)
              IN  /\ a.title # <<>> => item.title = EscapeOnce(a.title)
                  /\ item.link = EscapeOnce(a.url)
                  /\ item.guid = EscapeOnce(a.url)
                  /\ a.author # <<>> => item.creator = EscapeOnce(a.author)
                  /\ item.description = cdataSection(inner)
                  /\ Len(a.description) >= 10 => inner = EscapeOnce(a.description)
                  /\ \A f \in {item.title, item.link, item.guid, item.creator, inner} :
                        /\ \A n \in 1..Len(f) : f[n] \notin Reserved \ {"&"}
                        /\ \A n \in 1..Len(f) :
                              f[n] = "&" => \E c \in Reserved : At(f, EntityOf(c), n)

\* A record whose fields hold an & beside another reserved character has
\* been serialized.
C9_Witness ==
    /\ pc = "done"
    /\ feed.kind = "articles"
    /\ \E i \in 1..Len(result) :
          /\ \E n \in 1..Len(result[i].title) : result[i].title[n] = "&"
          /\ \E n \in 1..Len(result[i].title) :
                result[i].title[n] \in Reserved \ {"&"}
          /\ Len(result[i].description) >= 10
          /\ Len(feed.items[i].title) > Len(result[i].title)

\* C10: decoding the <title> and the CDATA-wrapped <description> that
\* generateRSS emits, as a standard XML parser does, gives back exactly the
\* original title and the original description, for every title and
\* description built from the reserved characters and ordinary text.
C10_RoundTrip ==
    feed.kind = "articles" =>
        \A i \in 1..Len(feed.items) :
            /\ result[i].title # <<>> =>
                  ParseContent(feed.items[i].title) = result[i].title
            /\ Len(result[i].description) >= 10 =>
                  ParseContent(feed.items[i].description) = result[i].description

\* What holds: the title comes back, and so does a description without
\* reserved characters.
C10_TitleRoundTrip ==
    feed.kind = "articles" =>
        \A i \in 1..Len(feed.items) :
            /\ result[i].title # <<>> =>
                  ParseContent(feed.items[i].title) = result[i].title
            /\ (/\ Len(result[i].description) >= 10
                /\ \A n \in 1..Len(result[i].description) :
                      result[i].description[n] \notin Reserved)
               => ParseContent(feed.items[i].description) = result[i].description

(***************************************************************************)
(* Properties of main                                                      *)
(***************************************************************************)

ErrorTitle == Str("Feed Generation Error")

\* C11: every run of main ends with a feed document written to feed.xml,
\* whether articles were found, none was found, or scraping threw.
C11_FeedWritten == <>[](pc = "done" /\ feed.kind # "none")

\* A run in which page.evaluate threw after the page had been scrolled, and
\* that ended with a feed written.
C11_Witness ==
    /\ pc = "done"
    /\ render.scrolled
    /\ browser = "closed"
    /\ feed.kind = "error"

\* C12: when the launch, the navigation or the evaluation throws, main
\* writes a feed with exactly one item, titled 'Feed Generation Error', and
\* ends with status 1; it never ends with status 1 without that feed.
C12_ErrorFeed ==
    /\ (pc = "failed") ~>
          (/\ pc = "done"
           /\ feed.kind = "error"
           /\ Len(feed.items) = 1
           /\ feed.items[1].title = ErrorTitle
           /\ exitCode = 1)
    /\ [](exitCode = 1 =>
            /\ feed.kind = "error"
            /\ Len(feed.items) = 1
            /\ feed.items[1].title = ErrorTitle)

\* A run in which puppeteer.launch threw, so that no browser was ever open,
\* and that ended with the error feed and status 1.
C12_Witness ==
    /\ pc = "done"
    /\ browser = "none"
    /\ feed.kind = "error"
    /\ Len(feed.items) = 1
    /\ exitCode = 1

NoticeTitle == Str("Feed Generation Notice")

\* C13: generateRSS called with no record yields a well-formed document
\* whose channel is opened and closed and holds no item; main, given no
\* record, writes a well-formed document with exactly one item, the notice.
C13_EmptyFeed ==
    /\ (pc = "done" /\ result = <<>>) => feed.kind \in {"articles", "notice"}
    /\ (pc = "done" /\ result = <<>> /\ feed.kind = "articles") =>
          /\ Len(feed.items) = 0
          /\ elementCount(markup(feed), "channel") = 1
          /\ elementCount(markup(feed), "item") = 0
          /\ WellFormed(markup(feed))
    /\ (pc = "done" /\ feed.kind = "notice") =>
          /\ Len(feed.items) = 1
          /\ feed.items[1].title = NoticeTitle
          /\ elementCount(markup(feed), "item") = 1
          /\ WellFormed(markup(feed))

\* generateRSS has returned from a call with no record and a channel link
\* that holds reserved characters.
C13_Witness ==
    /\ pc = "done"
    /\ result = <<>>
    /\ feed.kind = "articles"
    /\ Len(feed.items) = 0
    /\ profileUrl # ProfileUrl

\* main has written the notice feed.
C13_WitnessMain ==
    /\ pc = "done"
    /\ result = <<>>
    /\ feed.kind = "notice"
    /\ Len(feed.items) = 1

\* A run that started with the feed of an earlier run on disk.
SecondRun == feed.kind \in {"articles", "notice"} /\ pc # "done"

BylineTail == Str(" By Sharon Machlis Oct 3, 2024 5 mins R Language")

BylineOnly == Str("By Sharon Machlis Oct 3, 2024 5 mins")

\* No heading, no title-class element, no title or aria-label attribute.
LinkTextOnly(e) ==
    /\ e.titleAttr = <<>>
    /\ e.ariaLabel = <<>>
    /\ querySelector(containerNodes(e), {"h", "title"}) = NoNode

\* The part of the link text before the byline.
TitleBeforeByline(e) ==
    SubSeq(textContent(e.kids), 1, Len(textContent(e.kids)) - Len(BylineTail))

\* A clean title: words of letters, one space between them, no "By" among
\* them, five characters at least.
CleanTitle(T) ==
    /\ Len(T) >= 5
    /\ \A i \in 1..Len(T) : T[i] \in UpperCh \cup LowerCh \cup {" "}
    /\ trim(T) = T
    /\ ~includes(T, Str("  "))
    /\ ~includes(Str(" ") \o toLowerCase(T) \o Str(" "), Str(" by "))

\* The link text of e is a clean title followed by byline, date, reading
\* time and category.
TitleThenByline(e) ==
    /\ LinkTextOnly(e)
    /\ Len(textContent(e.kids)) >= Len(BylineTail)
    /\ At(textContent(e.kids), BylineTail,
          Len(textContent(e.kids)) - Len(BylineTail) + 1)
    /\ CleanTitle(TitleBeforeByline(e))

\* C15: for a link text '<T> By Sharon Machlis <Mon D, YYYY> <N> mins
\* <category>' with a clean title T of at least 5 characters and no other
\* source of a title, the title the main pass extracts is exactly T.
C15_TitleBeforeByline ==
    ~alternative =>
        \A i \in 1..Len(result), k \in 1..Len(page) :
            (result[i].url = hrefOf(k) /\ TitleThenByline(entryOfItem(page[k])))
                => result[i].title = TitleBeforeByline(entryOfItem(page[k]))

\* What holds: the same for the titles of more than 10 characters.
C15_LongTitleBeforeByline ==
    ~alternative =>
        \A i \in 1..Len(result), k \in 1..Len(page) :
            ( /\ result[i].url = hrefOf(k)
              /\ TitleThenByline(entryOfItem(page[k]))
              /\ Len(TitleBeforeByline(entryOfItem(page[k]))) > 10 )
                => result[i].title = TitleBeforeByline(entryOfItem(page[k]))

\* The link text of e is the byline block and nothing else.
BylineBlockOnly(e) ==
    /\ LinkTextOnly(e)
    /\ trim(textContent(e.kids)) = BylineOnly

\* C16: when the only title text is the blob 'By Sharon Machlis <Mon D, YYYY>
\* <N> mins' and the url ends in a hyphenated slug, the title the main pass
\* extracts is the slug in title case ('/fixing-common-bugs.html' gives
\* 'Fixing Common Bugs'), not the sentinel and not the blob.
C16_SlugTitle ==
    ~alternative =>
        \A i \in 1..Len(result), k \in 1..Len(page) :
            (result[i].url = hrefOf(k) /\ BylineBlockOnly(entryOfItem(page[k])))
                => /\ result[i].title = slugTitle(hrefOf(k), UntitledArticle)
                   /\ result[i].title # UntitledArticle
                   /\ result[i].title # BylineOnly

(***************************************************************************)
(* Properties of the serialization                                         *)
(***************************************************************************)

\* The places of the start tags of a name, in document order.
placesOf(tokens, name) ==
    SelectSeq([i \in 1..Len(tokens) |-> i], LAMBDA i : tokens[i] = Open(name))

\* The content of the first element of a name at or after place i.
contentFrom(tokens, name, i) ==
    tokens[MinOf({j \in i..Len(tokens) : tokens[j] = Open(name)}) + 1].text

WaitTimesOut ==
    \/ render.navigation # "timeout" /\ render'.navigation = "timeout"
    \/ render.contentWait # "timeout" /\ render'.contentWait = "timeout"

\* C18: when the navigation wait or the content wait exceeds its timeout,
\* the run does not fail: it goes on towards the extraction over the
\* document as it is, and no error feed comes of the timeout.
C18_TimeoutTolerated ==
    [][WaitTimesOut => (pc' # "failed" /\ browser' # "closed")]_vars

\* What holds: the content wait's timeout alone is tolerated, and a run in
\* which the navigation timed out never extracts.
C18_ContentTimeoutTolerated ==
    [][ /\ (render.contentWait # "timeout" /\ render'.contentWait = "timeout")
            => pc' = "waited"
        /\ (render.navigation # "timeout" /\ render'.navigation = "timeout")
            => pc' = "failed" ]_vars

\* After a timed-out content wait the article feed has been written.
C18_ContentTimeoutFeed ==
    /\ pc = "done"
    /\ render.contentWait = "timeout"
    /\ feed.kind = "articles"
    /\ Len(feed.items) >= 2

\* Navigation has completed, the settle delay has elapsed, the content wait
\* has succeeded or timed out, and autoScroll has resolved.
RenderComplete ==
    /\ render.navigation = "done"
    /\ render.settled
    /\ render.contentWait \in {"found", "timeout"}
    /\ render.scrolled

\* A step of the extraction: the first or the second page.evaluate settles.
ExtractionStep ==
    /\ pc' # "start"
    /\ \/ pc = "loaded" /\ pc' # "loaded"
       \/ pc' \in {"extracted", "alternative"} /\ pc' # pc
       \/ articleData' # articleData
       \/ allLinks' # allLinks

\* A step of the render: navigation, settle delay, content wait, autoScroll.
RenderStep ==
    \E f \in {"navigation", "settled", "contentWait", "scrolled"} :
        render'[f] # render[f]

\* C19: the extraction never starts before navigation has completed, the
\* settle delay has elapsed, the content wait has succeeded or timed out and
\* autoScroll has resolved, and no step is both of the extraction and of the
\* render.
C19_ExtractionAfterRender ==
    [][ /\ ExtractionStep => (RenderComplete /\ ~RenderStep)
        /\ (RenderStep /\ pc' # "start") =>
              (articleData = <<>> /\ allLinks = <<>> /\ ~alternative) ]_vars

\* The extraction has run after a content wait that timed out.
C19_Witness ==
    /\ pc = "extracted"
    /\ render.contentWait = "timeout"
    /\ RenderComplete
    /\ Len(articleData) >= 2

(***************************************************************************)
(* Properties of the candidate discovery                                   *)
(***************************************************************************)

\* Whether selector k matches some element of the page.
Yields(k) ==
    \E i \in 1..Len(page), tag \in {"A", "DIV"} :
        selectorMatches(k, tag, entryOfItem(page[i]))

\* The first selector of the list that matches anything, 0 when none does.
FirstYielding ==
    IF \E k \in 1..NSelectors : Yields(k)
    THEN MinOf({k \in 1..NSelectors : Yields(k)})
    ELSE 0

\* The selectors that have put a candidate with the url of record r into
\* the set: for each such element, the first selector that matches it.
ContributedBy(r) ==
    { firstSelector(tag, entryOfItem(page[i])) :
        <<i, tag>> \in { q \in (1..Len(page)) \X {"A", "DIV"} :
                           /\ hrefOf(q[1]) = r.url
                           /\ firstSelector(q[2], entryOfItem(page[q[1]])) # 0
                           /\ ~isExcluded(q[2], page[q[1]].region) } }

\* C20: discovery applies its selectors with first-match policy: every
\* candidate is a match of the first selector that yields any, and a later
\* selector contributes only when every earlier one yielded nothing.
C20_FirstMatchOnly ==
    pc = "extracted" =>
        \A n \in 1..Len(articleData) :
            \A k \in ContributedBy(articleData[n]) :
                \A earlier \in 1..(k - 1) : ~Yields(earlier)

\* What holds: the candidates are the matches of all the selectors together,
\* each element once.
C20_UnionOfSelectors ==
    pc = "extracted" =>
        /\ \A n \in 1..Len(articleData) : ContributedBy(articleData[n]) # {}
        /\ \A i \in 1..Len(page) :
              ( /\ firstSelector("A", entryOfItem(page[i])) # 0
                /\ ~isExcluded("A", page[i].region)
                /\ pushedFor("A", page[i]) # <<>> )
                  => \E n \in 1..Len(articleData) : articleData[n].url = hrefOf(i)

\* The last selector has contributed beside the first.
C20_LaterSelectorContributes ==
    /\ pc = "extracted"
    /\ FirstYielding = 1
    /\ \E n \in 1..Len(articleData) : ContributedBy(articleData[n]) = {NSelectors}

(***************************************************************************)
(* Properties of the region exclusion and of the alternative pass          *)
(***************************************************************************)

\* C21: in the main pass no candidate inside a non-primary region (an
\* excludeSections element) is accepted, whichever selector found it and
\* whether it is a link or a container such as '.article-item': every
\* record pushed has its url on a link of the primary column.
C21_ExcludedRegions ==
    pc = "extracted" =>
        \A n \in 1..Len(articleData) :
            \E i \in 1..Len(page) :
                /\ hrefOf(i) = articleData[n].url
                /\ page[i].region = "main"

\* What holds: no link of an excluded section is a candidate.
C21_ExcludedLinks ==
    pc = "extracted" =>
        \A n \in 1..Len(articleData) :
            \E i \in 1..Len(page) :
                /\ hrefOf(i) = articleData[n].url
                /\ page[i].region = "main" \/ entryOfItem(page[i]).item

\* C22: the catch-all pass over every a[href*="/article/"] runs only when
\* the selectors of the main pass found no candidate at all, never when
\* candidates were found and then all dropped by the exclusion or by the
\* author and section filters.
C22_CatchAllOnlyWithoutCandidates ==
    [][(~alternative /\ alternative') => \A k \in 1..NSelectors : ~Yields(k)]_vars

\* What holds: it runs only when the main pass returned no record.
C22_CatchAllOnlyWithoutRecords ==
    [][(~alternative /\ alternative') => (pc = "extracted" /\ articles = <<>>)]_vars

(***************************************************************************)
(* Properties of the loop over the candidates                              *)
(***************************************************************************)

\* The page without the entries whose link makes the processing throw.
WithoutThrowing(doc) ==
    SelectSeq(doc, LAMBDA item : ~throws(Cand("A", entryOfItem(item))))

\* C23: an exception raised while one candidate is processed skips that
\* candidate only: the records pushed are exactly those pushed for the page
\* without it, before and after its place, and the loop is not left.
C23_SkipsFailingCandidate ==
    pc = "extracted" =>
        /\ articleData = extractArticleData(WithoutThrowing(page))
        /\ articles = dedupByUrl(extractArticleData(WithoutThrowing(page)))

\* A candidate has thrown between or before candidates that gave records.
C23_Witness ==
    /\ pc = "extracted"
    /\ Len(articleData) >= 1
    /\ \E i \in 1..Len(page) :
          /\ throws(Cand("A", entryOfItem(page[i])))
          /\ page[i].region = "main"
          /\ \E j \in (i + 1)..Len(page) :
                \E n \in 1..Len(articleData) : articleData[n].url = hrefOf(j)

(***************************************************************************)
(* Properties of the descriptions                                          *)
(***************************************************************************)

\* Whether a text holds one of the placeholder phrases, in any case.
Placeholder(s) ==
    \/ includes(toLowerCase(s), Str("click to read"))
    \/ includes(toLowerCase(s), Str("read more"))

\* The trimmed text of the first summary element beside the link of page
\* item i, <<>> when there is none.
SummaryOf(i) ==
    trimmedText(querySelector(containerNodes(entryOfItem(page[i])), {"summary"}))

\* C24: every description of the main pass is empty or has 20 to 500
\* characters and neither 'click to read' nor 'read more' in it, in any
\* case; a summary of more than 500 characters is cut to its first 497
\* followed by '...', a shorter one is kept as it is.
C24_DescriptionLimits ==
    pc = "extracted" =>
        /\ \A n \in 1..Len(articleData) :
              \/ articleData[n].description = <<>>
              \/ /\ Len(articleData[n].description) \in 20..500
                 /\ ~Placeholder(articleData[n].description)
        /\ \A n \in 1..Len(articleData), i \in 1..Len(page) :
              (articleData[n].url = hrefOf(i) /\ SummaryOf(i) # <<>>) =>
                  articleData[n].description =
                      IF Len(SummaryOf(i)) < 20 \/ Placeholder(SummaryOf(i)) THEN <<>>
                      ELSE IF Len(SummaryOf(i)) > 500
                      THEN SubSeq(SummaryOf(i), 1, 497) \o Str("...")
                      ELSE SummaryOf(i)

\* A summary of 501 characters has been cut to 500.
C24_Witness ==
    /\ pc = "extracted"
    /\ \E n \in 1..Len(articleData), i \in 1..Len(page) :
          /\ articleData[n].url = hrefOf(i)
          /\ Len(SummaryOf(i)) = 501
          /\ Len(articleData[n].description) = 500
          /\ SubSeq(articleData[n].description, 498, 500) = Str("...")

\* A summary of 500 characters is kept, one of 20 too, one of 19 is not, and
\* one with a placeholder phrase is not.
C24_WitnessKept ==
    /\ pc = "extracted"
    /\ \E n \in 1..Len(articleData), i \in 1..Len(page) :
          /\ articleData[n].url = hrefOf(i)
          /\ Len(SummaryOf(i)) = 20
          /\ articleData[n].description = SummaryOf(i)

(***************************************************************************)
(* Properties of the CDATA section                                         *)
(***************************************************************************)

CDataEnd == Str("]]>")

\* What stands between '<![CDATA[' and the last three characters of s.
InsideCData(s) == SubSeq(s, Len(Str("<![CDATA[")) + 1, Len(s) - Len(CDataEnd))

\* C25: for every description, also one that holds ']]>', '<![CDATA[' or
\* text that looks like a tag, what generateRSS writes between '<![CDATA['
\* and ']]>' never holds ']]>' (nor a '<'), so that the section ends where
\* the template ends it and the item gets no element from the description.
C25_CDataNeverEndsEarly ==
    feed.kind \in {"articles", "notice"} =>
        \A i \in 1..Len(feed.items) :
            /\ startsWith(feed.items[i].description, Str("<![CDATA["))
            /\ At(feed.items[i].description, CDataEnd,
                  Len(feed.items[i].description) - Len(CDataEnd) + 1)
            /\ ~includes(InsideCData(feed.items[i].description), CDataEnd)
            /\ ~includes(InsideCData(feed.items[i].description), Str("<"))
            /\ ParseContent(feed.items[i].description)
                  = InsideCData(feed.items[i].description)

\* A description that holds ']]>' and is long enough to be kept has been
\* serialized, and one that holds '<![CDATA['.
C25_Witness ==
    /\ pc = "done"
    /\ feed.kind = "articles"
    /\ \E i \in 1..Len(result) :
          /\ Len(result[i].description) >= 10
          /\ includes(result[i].description, CDataEnd)
          /\ includes(InsideCData(feed.items[i].description), Str("]]&gt;"))

(***************************************************************************)
(* Properties of the writes of feed.xml                                    *)
(***************************************************************************)

\* C26: when the scrape returns no record, main writes the notice feed of
\* one item and ends with status 0, and does not write the article feed; in
\* every run feed.xml is written once and no more, and the error feed only
\* after an exception.
C26_NoticeNotError ==
    [][ /\ (pc = "returned" /\ result = <<>> /\ pc' # pc) =>
              /\ feed'.kind = "notice"
              /\ Len(feed'.items) = 1
              /\ feed'.items[1].title = NoticeTitle
              /\ exitCode' = 0
              /\ pc' = "done"
        /\ feed' # feed => (feed.kind = "none" /\ pc' = "done")
        /\ pc' = "done" => feed'.kind # "none"
        /\ pc = "done" => feed' = feed
        /\ feed'.kind = "error" => (pc \in {"failed", "done"} /\ exitCode' = 1)
        /\ (feed'.kind = "articles" /\ pc' = "done") => result # <<>> ]_vars

\* main has ended with the notice feed after both passes found nothing.
C26_Witness ==
    /\ pc = "done"
    /\ result = <<>>
    /\ alternative
    /\ feed.kind = "notice"
    /\ exitCode = 0
    /\ browser = "closed"

(***************************************************************************)
(* Properties of the browser                                               *)
(***************************************************************************)

\* scrapeInfoWorldProfile settles: it returns or it throws.
Settles == pc \in {"start", "launched", "navigated", "settled", "waited", "loaded",
                   "extracted", "alternative"}
           /\ pc' \in {"returned", "failed"}

\* C27: on every way out of scrapeInfoWorldProfile after the launch
\* succeeded (return of the main pass, return of the alternative pass,
\* exception from navigation or evaluation) browser.close() has been called
\* once, no more, when the promise settles; when the launch itself failed
\* it is never called.
C27_BrowserClosedOnce ==
    [][ /\ browser' # browser =>
              \/ browser = "none" /\ browser' = "open" /\ pc = "start"
              \/ browser = "open" /\ browser' = "closed" /\ Settles
        /\ Settles => browser' = (IF pc = "start" THEN "none" ELSE "closed")
        /\ pc \in {"returned", "failed", "done"} => browser' = browser ]_vars

\* The alternative pass has returned and the browser is closed.
C27_Witness ==
    /\ pc = "returned"
    /\ alternative
    /\ Len(result) >= 1
    /\ browser = "closed"

\* The launch failed and there is no browser to close.
C27_WitnessNoLaunch ==
    /\ pc = "failed"
    /\ browser = "none"

(***************************************************************************)
(* Properties of autoScroll                                                *)
(***************************************************************************)

\* C28: autoScroll always ends: its promise resolves when the scrolled
\* distance reaches the bottom or when the 5 s timer fires, also when the
\* page grows at every step; once it has resolved the interval is cleared
\* and nothing is scrolled any more, and the 5 s timer firing later changes
\* nothing but itself.
C28_AutoScrollEnds ==
    /\ <>[](render.scrolled /\ render.interval = "cleared" /\ pc # "waited")
    /\ [][ /\ render.scrolled =>
                /\ render'.scrolled
                /\ render'.interval = "cleared"
                /\ render'.totalHeight = render.totalHeight
           /\ render'.scrolled => render'.interval = "cleared"
           /\ (render.scrolled /\ render'.timer # render.timer) =>
                /\ render' = [render EXCEPT !.timer = "spent"]
                /\ UNCHANGED <<page, pc, browser, profileUrl, articleData, articles,
                               allLinks, alternative, result, feed, exitCode>> ]_vars

\* The page grew at every step and the 5 s timer ended the scrolling.
C28_Witness ==
    /\ render.scrolled
    /\ render.timer = "spent"
    /\ render.totalHeight >= 2
    /\ render.scrollHeight > render.totalHeight
    /\ render.interval = "cleared"

\* The bottom was reached first and the 5 s timer fired afterwards.
C28_WitnessBottom ==
    /\ render.scrolled
    /\ render.timer = "spent"
    /\ render.totalHeight >= render.scrollHeight
    /\ render.totalHeight >= 2
    /\ pc = "extracted"

(***************************************************************************)
(* Properties of the author filter                                         *)
(***************************************************************************)

\* The container text of e attributes the article to Sharon Machlis and to
\* nobody else: it holds her byline, every word "by" in it begins her
\* byline, and it holds no "author:".
OwnArticle(e) ==
    \E s \in {toLowerCase(textContent(containerNodes(e)))} :
        /\ includes(s, Str("by sharon machlis"))
        /\ ~includes(s, Str("author:"))
        /\ \A i \in 1..Len(s) :
              (At(s, Str("by"), i)
                 /\ (i = 1 \/ s[i - 1] \notin WordCh)
                 /\ (i + 2 > Len(s) \/ s[i + 2] \notin WordCh))
                    => \E k \in 1..3 :
                          At(s, Str("by") \o Repeat(<<" ">>, k) \o Str("sharon machlis"), i)

\* C29: the author filter never rejects an article of the target author: a
\* candidate whose container text attributes it to Sharon Machlis alone
\* passes, whatever the white space after 'By' and whatever ordinary words
\* ('from', 'Ruby on') the title holds, and the main pass gives a record
\* for it.
C29_OwnArticlesPass ==
    pc = "extracted" =>
        \A i \in 1..Len(page) :
            (OwnArticle(entryOfItem(page[i])) /\ page[i].region = "main")
                => /\ ~otherAuthor(textContent(containerNodes(entryOfItem(page[i]))))
                   /\ \E n \in 1..Len(articleData) : articleData[n].url = hrefOf(i)

\* What holds: her article passes when the only "by" of the text is that of
\* her byline, with one space after it, and the text holds no "from".
C29_PlainBylinePasses ==
    pc = "extracted" =>
        \A i \in 1..Len(page) :
            ( /\ OwnArticle(entryOfItem(page[i]))
              /\ page[i].region = "main"
              /\ \E s \in {toLowerCase(textContent(containerNodes(entryOfItem(page[i]))))} :
                    /\ \A j \in 1..Len(s) :
                          At(s, Str("by"), j) => At(s, Str("by sharon machlis"), j)
                    /\ ~includes(s, Str("from")) )
                => \E n \in 1..Len(articleData) : articleData[n].url = hrefOf(i)

(***************************************************************************)
(* Properties of the alternative pass                                      *)
(***************************************************************************)

\* The distinct urls among the links of the page whose href holds
\* 'infoworld.com/article/'.
DistinctArticleUrls ==
    { hrefOf(i) : i \in { j \in 1..Len(page) :
                            includes(hrefOf(j), Str("infoworld.com/article/")) } }

\* C30: when the alternative pass has run it returns min(MAX_ARTICLES, d)
\* records, d the number of distinct article urls among the links of the
\* page: links repeated among the first ones do not make them fewer.
C30_AlternativeCount ==
    (pc = "returned" /\ alternative) =>
        Len(result) = Min(MAX_ARTICLES, Cardinality(DistinctArticleUrls))

\* What holds: it returns the distinct urls among the first MAX_ARTICLES
\* links, which are no more than that.
C30_AlternativeAtMost ==
    (pc = "returned" /\ alternative) =>
        /\ Len(result) <= Min(MAX_ARTICLES, Cardinality(DistinctArticleUrls))
        /\ Len(result) = Cardinality({ allLinks[i].url : i \in 1..Len(allLinks) })
        /\ Len(allLinks) <= MAX_ARTICLES

====
